---- MODULE Spec2Model ----
(***************************************************************************)
(* MonkeyTrenches simulation core (src/src/game/engine.ts) as a state      *)
(* machine.  The state is the World held by the driver (worldRef.current   *)
(* in src/src/components/game-canvas.tsx); the actions are the exported    *)
(* engine operations the driver applies to it: spawnMonkeys,               *)
(* processTransaction, spawnMonkeysFromPools and stepWorld.                *)
(*                                                                         *)
(* Numbers.  Lengths are fixed-point, PX units to the pixel, so that every *)
(* tier's size/2, collisionRadius and speed*dt is an integer.  All agents  *)
(* and bananas lie on one horizontal line (equal y), where Math.hypot is   *)
(* |dx| and a unit vector is -1, 0 or +1; Math.random() draws are inputs   *)
(* chosen from small sets.  SOL amounts are in units of 1/SOL and are JS     *)
(* numbers: the result of + and - is rounded to SigBits significant bits,  *)
(* ties to even, as IEEE-754 rounds a double to 53.                        *)
(***************************************************************************)
EXTENDS Integers, Sequences, FiniteSets, TLC

VARIABLES world, clock, nextId, nextBananaId, ticks, txs, last, dealtAt, turnedAt,
          topRequested, reservedAs,
          wall, resetTimestamp, pollers, calls

vars == <<world, clock, nextId, nextBananaId, ticks, txs, last, dealtAt, turnedAt,
          topRequested, reservedAs,
          wall, resetTimestamp, pollers, calls>>

\* The driver's poller handoff: Date.now() in seconds, the resetTimestamp
\* state, the pollers the effect created so far (the last one is current) and
\* the onTransaction calls made so far.
pollerVars == <<wall, resetTimestamp, pollers, calls>>

(* ------------------------------ bounds -------------------------------- *)
MaxMonkeys == 2        \* config.maxMonkeys of the model's GameConfig
MaxSpawned == 4        \* spawn requests stop once this many agents were requested
MaxTicks == 2          \* stepWorld calls per behaviour
MaxTx == 1             \* processTransaction calls per behaviour
MaxFunding == 4        \* processTransaction calls per behaviour of SpecFunding
MaxWall == 3           \* seconds of Date.now() a behaviour of SpecPoller spans
MaxHash == 4           \* transactions on the chain
MaxItems == 2          \* items in one Birdeye response
MaxResets == 1         \* resets that change resetTimestamp
MaxAllocateSteps == 60 \* amounts given to calculateMonkeySpawn, in steps of 0.2 SOL
MaxWanderTicks == 4    \* stepWorld calls per behaviour when headings are followed
MaxBananaTicks == 7    \* stepWorld calls per behaviour when bananas are followed
MaxPickupTicks == 4    \* stepWorld calls per behaviour when pickups are followed
MaxReserves == 2       \* a team's reserves counter when only the ledger is followed
MaxLoops == 2          \* polling loops of one poller at a time; start() is not called beyond
MaxMilliSol == 200     \* amounts given to getTeamIdFromSolAmount, in steps of 0.001 SOL
SigBits == 18          \* significand width of the model's numbers (53 in a JS number)

(* ------------------------- program constants -------------------------- *)
PX == 5 * 10                       \* fixed-point units per pixel
SOL == 100 * 100                   \* fixed-point units per SOL
BASE_MONKEY_SIZE == 48
BASE_COLLISION_RADIUS == 2
BASE_SPEED == 40
BASE_HP == 100
BASE_ATTACK_DAMAGE == 12
ATTACK_RANGE == 22
ATTACK_COOLDOWN_MS == 700
WANDER_INTERVAL_MS == 1250
MAX_BANANAS == 5
BANANA_HEAL_PERCENT == 10          \* 0.1, as a percentage
BANANA_SIZE == 16
SMALL_MONKEY_PRICE == SOL \div 10
MEDIUM_MONKEY_PRICE == SOL
BIG_MONKEY_PRICE == 10 * SOL
ERROR_MARGIN == SOL \div (100 * 100)

Tiers == {"small", "medium", "big"}
Teams == {"0", "1"}
Wallets == {"w1", "w2"}
NoTeam == "none"                   \* killedBy: undefined
NoId == 0                          \* targetId: undefined
Dirs == {-1, 1}                    \* randomDir() on the line
\* The heading drawn at creation is never read: wanderChangeAtMs = 0 makes the
\* agent's first tick overwrite it (engine.ts 713), so one draw stands for all.
SpawnDirs == {1}

Width == 200 * PX                  \* config.width
NearWall == 35 * PX                \* a base of 50 with a jitter of -15
BesideWall == 45 * PX              \* a base of 50 with a jitter of -5
NearBase == 60 * PX
FarBase == 84 * PX
SpawnBases == {NearBase, FarBase}    \* Math.random() * (width - 100) + 50
Jitters == {0}           \* (Math.random() - 0.5) * 40
NearBanana == 70 * PX
FarBanana == 170 * PX
WallBanana == 30 * PX
BananaXs == {NearBanana, FarBanana}    \* margin + Math.random() * (width - 2 * margin)
MaxDtMs == 50                     \* game-canvas.tsx 114: dt = min(0.05, elapsed)
NowSteps == {ATTACK_COOLDOWN_MS \div 2, ATTACK_COOLDOWN_MS}    \* now - previous now
Sols == {SMALL_MONKEY_PRICE, MEDIUM_MONKEY_PRICE + SMALL_MONKEY_PRICE}
\* transaction.sol of the funding events: 0.13 SOL, 14 SOL and 14.0001 SOL,
\* the last two large enough for their sum to be rounded.
FundingSols == {SMALL_MONKEY_PRICE + 3 * (SMALL_MONKEY_PRICE \div 10),
                14 * SOL, 14 * SOL + ERROR_MARGIN}

(* ------------------------------ helpers ------------------------------- *)
Min(a, b) == IF a < b THEN a ELSE b
Max(a, b) == IF a > b THEN a ELSE b
Abs(a) == IF a < 0 THEN -a ELSE a
Sign(a) == IF a < 0 THEN -1 ELSE IF a > 0 THEN 1 ELSE 0

\* The JS number nearest to the real x: x itself while it fits the
\* significand, else the nearest multiple of the spacing 2^k at x, ties to the
\* even significand.
RECURSIVE Spacing(_, _)
Spacing(x, q) == IF x < q * 2^SigBits THEN q ELSE Spacing(x, 2 * q)

Fl(x) ==
    LET a == Abs(x)
        q == Spacing(a, 1)
        m == a \div q
        r == a % q
        up == 2 * r > q \/ (2 * r = q /\ m % 2 = 1)
    IN Sign(x) * (IF up THEN (m + 1) * q ELSE m * q)

FAdd(x, y) == Fl(x + y)            \* x + y on JS numbers
FSub(x, y) == Fl(x - y)            \* x - y on JS numbers

RECURSIVE SumSeq(_)
SumSeq(s) == IF s = <<>> THEN 0 ELSE Head(s) + SumSeq(Tail(s))

\* Map.get on an insertion-ordered Map kept as a sequence of records: the
\* index of the entry of that team, 0 when absent.
TeamIndex(map, teamId) ==
    IF \E i \in 1..Len(map) : map[i].teamId = teamId
    THEN CHOOSE i \in 1..Len(map) : map[i].teamId = teamId
    ELSE 0

MONKEY_COSTS(type) ==
    CASE type = "small" -> SMALL_MONKEY_PRICE
      [] type = "medium" -> MEDIUM_MONKEY_PRICE
      [] type = "big" -> BIG_MONKEY_PRICE

getMonkeyStatsOfSmall(type) ==
    [size |-> BASE_MONKEY_SIZE * PX,
     collisionRadius |-> BASE_COLLISION_RADIUS * PX,
     speed |-> BASE_SPEED * PX,
     maxHp |-> BASE_HP,
     damage |-> BASE_ATTACK_DAMAGE,
     healthBars |-> 1]
\* size, collisionRadius in fixed-point units; speed in units per second.
getMonkeyStats(type) ==
    CASE type = "small" ->
           [size |-> BASE_MONKEY_SIZE * PX,
            collisionRadius |-> BASE_COLLISION_RADIUS * PX,
            speed |-> BASE_SPEED * PX,
            maxHp |-> BASE_HP,
            damage |-> BASE_ATTACK_DAMAGE,
            healthBars |-> 1]
      [] type = "medium" ->
           [size |-> (BASE_MONKEY_SIZE * PX * 13) \div 10,
            collisionRadius |-> (BASE_COLLISION_RADIUS * PX * 13) \div 10,
            speed |-> (BASE_SPEED * PX * 5) \div 10,
            maxHp |-> BASE_HP * 8,
            damage |-> BASE_ATTACK_DAMAGE * 2,
            healthBars |-> 2]
      [] type = "big" ->
           [size |-> (BASE_MONKEY_SIZE * PX * 18) \div 10,
            collisionRadius |-> (BASE_COLLISION_RADIUS * PX * 18) \div 10,
            speed |-> (BASE_SPEED * PX * 33) \div 100,
            maxHp |-> BASE_HP * 50,
            damage |-> BASE_ATTACK_DAMAGE * 20,
            healthBars |-> 3]

\* A Map<wallet, amount> is a function on the wallets that have an entry.
EmptyWallets == [x \in {} |-> 0]
WalletGet(map, wallet) == IF wallet \in DOMAIN map THEN map[wallet] ELSE 0
WalletSet(map, wallet, v) ==
    [x \in DOMAIN map \cup {wallet} |-> IF x = wallet THEN v ELSE map[x]]
WalletDelete(map, wallet) == [x \in DOMAIN map \ {wallet} |-> map[x]]

createWorld == [monkeys |-> <<>>, teamStats |-> <<>>, teamPools |-> <<>>, bananas |-> <<>>]

(* ---------------------------- spawnMonkeys ---------------------------- *)
\* The Monkey record built at engine.ts 471-492 and 534-555.
NewMonkey(id, teamId, monkeyType, x, v) ==
    [id |-> id, teamId |-> teamId, monkeyType |-> monkeyType,
     position |-> x, velocity |-> v,
     hp |-> getMonkeyStats(monkeyType).maxHp,
     maxHp |-> getMonkeyStats(monkeyType).maxHp,
     lastAttackAtMs |-> 0, targetId |-> NoId, wanderChangeAtMs |-> 0,
     isUnderAttack |-> FALSE, killedBy |-> NoTeam, isFighting |-> FALSE,
     collisionRadius |-> getMonkeyStats(monkeyType).collisionRadius]

AvailableSlotsUncapped(w) == MaxMonkeys
\* engine.ts 425-426 and 514
AvailableSlots(w) == Max(0, MaxMonkeys - Len(w.monkeys))

MonkeysToSpawnAll(w, count) == count
\* engine.ts 427
MonkeysToSpawn(w, count) == Min(count, AvailableSlots(w))

NewTeamStats(teamId, count, toSpawn, toReserve, monkeyType) ==
    [teamId |-> teamId, totalSol |-> 0, spawned |-> count, alive |-> toSpawn,
     dead |-> 0, kills |-> 0, reserves |-> toReserve, monkeyType |-> monkeyType,
     fundingWallets |-> EmptyWallets]

SpawnStatsDrainReserves(stats, count, toSpawn, toReserve, monkeyType) ==
    [stats EXCEPT !.spawned = @ + count,
                  !.alive = @ + toSpawn,
                  !.reserves = @ - toReserve,
                  !.monkeyType = IF MONKEY_COSTS(monkeyType) > MONKEY_COSTS(@)
                                 THEN monkeyType ELSE @]
SpawnStatsLatestTier(stats, count, toSpawn, toReserve, monkeyType) ==
    [stats EXCEPT !.spawned = @ + count,
                  !.alive = @ + toSpawn,
                  !.reserves = @ + toReserve,
                  !.monkeyType = monkeyType]
SpawnStatsDropOverflow(stats, count, toSpawn, toReserve, monkeyType) ==
    [stats EXCEPT !.spawned = @ + count, !.alive = @ + toSpawn]
\* The update of an existing team record, engine.ts 431-438.
SpawnStats(stats, count, toSpawn, toReserve, monkeyType) ==
    [stats EXCEPT !.spawned = @ + count,
                  !.alive = @ + toSpawn,
                  !.reserves = @ + toReserve,
                  !.monkeyType = IF MONKEY_COSTS(monkeyType) > MONKEY_COSTS(@)
                                 THEN monkeyType ELSE @]

SpawnPoolsSpent(w) ==
    [t \in 1..Len(w.teamPools) |->
        [w.teamPools[t] EXCEPT !.totalSol = 0, !.fundingWallets = EmptyWallets]]
\* engine.ts 460, 503: the pools of the world spawnMonkeys returns.
SpawnPools(w) == w.teamPools

\* rnd = [firstId, base, jit, dir] are the draws of one engine call, indexed by
\* the slot of the agent created (1st, 2nd, ... agent of the call): generateId()
\* gives firstId, firstId + 1, ...; a batch takes the spawn position drawn at
\* its first slot, each agent its own jitter and randomDir().  used: the slots
\* taken by earlier batches of the same call.
spawnMonkeys(w, count, teamId, monkeyType, rnd, used) ==
    IF count <= 0 THEN w
    ELSE
      LET i == TeamIndex(w.teamStats, teamId)
          monkeysToSpawn == MonkeysToSpawn(w, count)
          monkeysToReserve == count - monkeysToSpawn
          newTeamStats ==
              IF i # 0
              THEN [w.teamStats EXCEPT
                      ![i] = SpawnStats(@, count, monkeysToSpawn, monkeysToReserve, monkeyType)]
              ELSE Append(w.teamStats,
                          NewTeamStats(teamId, count, monkeysToSpawn, monkeysToReserve, monkeyType))
          newMonkeys ==
              [k \in 1..monkeysToSpawn |->
                  NewMonkey(rnd.firstId + used + k - 1, teamId, monkeyType,
                            rnd.base[used + 1] + rnd.jit[used + k], rnd.dir[used + k])]
      IN [monkeys |-> w.monkeys \o newMonkeys,
          teamStats |-> newTeamStats,
          teamPools |-> SpawnPools(w),
          bananas |-> w.bananas]

\* The draws for a call that creates n agents, spawn positions among bases.
Draws(n, firstId, bases) ==
    {[firstId |-> firstId, base |-> b, jit |-> j, dir |-> d] :
        b \in [1..n -> bases], j \in [1..n -> Jitters], d \in [1..n -> SpawnDirs]}

(* ------------------------- processTransaction ------------------------- *)
NewTeamPool(teamId) == [teamId |-> teamId, totalSol |-> 0, fundingWallets |-> EmptyWallets]

AmountToRemoveAll(sol, currentContribution) == sol
\* engine.ts 346
AmountToRemove(sol, currentContribution) == Min(sol, currentContribution)

SoldStatsDropReserves(teamStats, totalSol, wallet, newContribution) ==
    [teamStats EXCEPT !.totalSol = totalSol, !.reserves = 0]
\* engine.ts 352-361: the team record after a sell that left newContribution.
SoldStats(teamStats, totalSol, wallet, newContribution) ==
    [teamStats EXCEPT
        !.totalSol = totalSol,
        !.fundingWallets = IF newContribution <= 0
                           THEN WalletDelete(@, wallet)
                           ELSE WalletSet(@, wallet, newContribution)]

\* transaction = [signature, teamId, wallet, sol, isSell]
processTransaction(w, transaction) ==
    LET pools0 == IF TeamIndex(w.teamPools, transaction.teamId) = 0
                  THEN Append(w.teamPools, NewTeamPool(transaction.teamId))
                  ELSE w.teamPools
        stats0 == IF TeamIndex(w.teamStats, transaction.teamId) = 0
                  THEN Append(w.teamStats,
                              NewTeamStats(transaction.teamId, 0, 0, 0, "small"))
                  ELSE w.teamStats
        p == TeamIndex(pools0, transaction.teamId)
        t == TeamIndex(stats0, transaction.teamId)
        teamPool == pools0[p]
        teamStats == stats0[t]
        currentContribution == WalletGet(teamPool.fundingWallets, transaction.wallet)
        amountToRemove == AmountToRemove(transaction.sol, currentContribution)
        soldTotal == Max(0, FSub(teamPool.totalSol, amountToRemove))
        soldContribution == FSub(currentContribution, amountToRemove)
        boughtContribution == FAdd(currentContribution, transaction.sol)
        newPool ==
            IF transaction.isSell
            THEN IF currentContribution > 0
                 THEN [teamPool EXCEPT
                         !.totalSol = soldTotal,
                         !.fundingWallets =
                             IF soldContribution <= 0
                             THEN WalletDelete(@, transaction.wallet)
                             ELSE WalletSet(@, transaction.wallet, soldContribution)]
                 ELSE teamPool
            ELSE [teamPool EXCEPT
                    !.totalSol = FAdd(@, transaction.sol),
                    !.fundingWallets = WalletSet(@, transaction.wallet, boughtContribution)]
        newStats ==
            IF transaction.isSell
            THEN IF currentContribution > 0
                 THEN SoldStats(teamStats, newPool.totalSol, transaction.wallet,
                                soldContribution)
                 ELSE teamStats
            ELSE [teamStats EXCEPT
                    !.totalSol = newPool.totalSol,
                    !.fundingWallets = WalletSet(@, transaction.wallet, boughtContribution)]
    IN [w EXCEPT !.teamPools = [pools0 EXCEPT ![p] = newPool],
                 !.teamStats = [stats0 EXCEPT ![t] = newStats]]

(* ----------------------- getTeamIdFromSolAmount ----------------------- *)
CeilDiv(a, b) == (a + b - 1) \div b
Digits == <<"0", "1", "2", "3", "4", "5", "6", "7", "8", "9">>

\* A JS number below one unit of fixed point: [m, e] is m * 2^e, m of at most
\* SigBits bits, e negative for a fraction.
RECURSIVE ShiftFor(_, _, _)
ShiftFor(a, b, k) == IF a * 2^k >= 2^(SigBits - 1) * b THEN k ELSE ShiftFor(a, b, k + 1)

RoundDiv(a, b) ==
    LET q == a \div b
        r == a % b
    IN IF 2 * r > b \/ (2 * r = b /\ q % 2 = 1) THEN q + 1 ELSE q

\* The JS number nearest to a / b (ties to even), 0 <= a / b < 2^(SigBits - 1).
Quotient(a, b) ==
    IF a = 0 THEN [m |-> 0, e |-> 0]
    ELSE LET k == ShiftFor(a, b, 0)
         IN [m |-> RoundDiv(a * 2^k, b), e |-> 0 - k]

\* x * c for a whole number c, rounded as the product of two JS numbers is.
Times(x, c) == [m |-> Fl(x.m * c), e |-> x.e]

\* x / 2^n, exact.
Halved(x, n) == [m |-> x.m, e |-> x.e - n]

\* Math.ceil and Math.floor of x >= 0.
MathCeil(x) == IF x.e >= 0 THEN x.m * 2^x.e ELSE CeilDiv(x.m, 2^(0 - x.e))
MathFloor(x) == IF x.e >= 0 THEN x.m * 2^x.e ELSE x.m \div 2^(0 - x.e)

\* The number literal n / 10^5 (n hundred-thousandths of a SOL).
SolLiteral(n) == Halved(Quotient(n, 5^5), 5)

\* engine.ts 282-285.  c / 100 is (c / 25) / 4; x % 10 is exact, so that
\* Math.floor(x % 10) is Math.floor(x) % 10.
getTeamIdFromSolAmount(solAmount) ==
    LET roundedAmount == Halved(Quotient(MathCeil(Times(solAmount, 100)), 25), 2)
        secondDecimalDigit == MathFloor(Times(roundedAmount, 100)) % 10
    IN Digits[secondDecimalDigit + 1]

(* ------------------------ calculateMonkeySpawn ------------------------ *)
AffordedCountRoundedUp(remainingSol, cost) == (remainingSol + cost - 1) \div cost
\* engine.ts 181: Math.floor(remainingSol / cost)
AffordedCount(remainingSol, cost) == remainingSol \div cost

\* engine.ts 179-187: the loop over the tiers, largest first.
RECURSIVE Allocate(_, _)
Allocate(remainingSol, monkeyTypes) ==
    IF monkeyTypes = <<>> THEN <<>>
    ELSE LET cost == MONKEY_COSTS(Head(monkeyTypes))
             count == AffordedCount(remainingSol, cost)
         IN IF count > 0
            THEN <<[type |-> Head(monkeyTypes), count |-> count]>>
                 \o Allocate(FSub(remainingSol, Fl(count * cost)), Tail(monkeyTypes))
            ELSE Allocate(remainingSol, Tail(monkeyTypes))

calculateMonkeySpawn(solAmount) ==
    Allocate(FAdd(solAmount, ERROR_MARGIN), <<"big", "medium", "small">>)

\* stats.reserves of the team's record, 0 without record.
ReservesOfTeam(teamStats, teamId) ==
    IF TeamIndex(teamStats, teamId) = 0 THEN 0
    ELSE teamStats[TeamIndex(teamStats, teamId)].reserves

(* ----------------------- spawnMonkeysFromPools ------------------------ *)
\* The spawnMonkeys calls of one sweep, in the order the loops make them.
RECURSIVE PoolRequests(_)
PoolRequests(pools) ==
    IF pools = <<>> THEN <<>>
    ELSE LET monkeySpawns == calculateMonkeySpawn(Head(pools).totalSol)
         IN (IF Head(pools).totalSol > 0
             THEN [k \in 1..Len(monkeySpawns) |->
                     [teamId |-> Head(pools).teamId,
                      type |-> monkeySpawns[k].type,
                      count |-> monkeySpawns[k].count]]
             ELSE <<>>)
            \o PoolRequests(Tail(pools))

RECURSIVE SpawnAll(_, _, _, _)
SpawnAll(updatedWorld, requests, rnd, len0) ==
    IF requests = <<>> THEN updatedWorld
    ELSE SpawnAll(spawnMonkeys(updatedWorld, Head(requests).count, Head(requests).teamId,
                               Head(requests).type, rnd, Len(updatedWorld.monkeys) - len0),
                  Tail(requests), rnd, len0)

spawnMonkeysFromPools(w, rnd) ==
    SpawnAll(w, PoolRequests(w.teamPools), rnd, Len(w.monkeys))

RECURSIVE RequestedCount(_)
RequestedCount(requests) ==
    IF requests = <<>> THEN 0 ELSE Head(requests).count + RequestedCount(Tail(requests))

(* ------------------------------ stepWorld ----------------------------- *)
Dist(a, b) == Abs(a - b)           \* Math.hypot on the line

\* The first of the candidates at the least distance (strict < keeps the first).
NearestOf(cands, x, monkeys) ==
    IF cands = {} THEN 0
    ELSE CHOOSE i \in cands :
            \A j \in cands :
                \/ Dist(monkeys[i].position, x) < Dist(monkeys[j].position, x)
                \/ Dist(monkeys[i].position, x) = Dist(monkeys[j].position, x) /\ i <= j

\* Index in monkeys of the result, 0 for undefined.
findNearestEnemy(self, monkeys) ==
    NearestOf({i \in 1..Len(monkeys) : monkeys[i].teamId # self.teamId},
              self.position, monkeys)

findNearestThreatenedAlly(self, monkeys) ==
    NearestOf({i \in 1..Len(monkeys) :
                  monkeys[i].teamId = self.teamId /\ monkeys[i].isUnderAttack},
              self.position, monkeys)

canCollectBanana(monkey) == monkey.hp < monkey.maxHp

\* Index in bananas of the result, 0 for null.
findNearestBanana(monkey, bananas) ==
    IF ~canCollectBanana(monkey) \/ bananas = <<>> THEN 0
    ELSE NearestOf(1..Len(bananas), monkey.position, bananas)

clamp(value, min, max) ==
    IF value < min THEN min ELSE IF value > max THEN max ELSE value

checkBoundaryCollisions(originalPos, newPos, monkeySize) ==
    \/ originalPos < monkeySize \div 2 /\ newPos = monkeySize \div 2
    \/ originalPos > Width - monkeySize \div 2 /\ newPos = Width - monkeySize \div 2

\* The loop of resolveMonkeyCollision from the k-th other agent on; half the
\* overlap is rounded down to the fixed-point grid.
RECURSIVE Separate(_, _, _, _, _)
Separate(adjustedPos, id, radius, otherMonkeys, k) ==
    IF k > Len(otherMonkeys) THEN adjustedPos
    ELSE LET other == otherMonkeys[k]
             dx == adjustedPos - other.position
             distance == Abs(dx)
             minDistance == radius + other.collisionRadius
         IN IF id # other.id /\ distance < minDistance /\ distance > 0
            THEN Separate(adjustedPos + Sign(dx) * ((minDistance - distance) \div 2),
                          id, radius, otherMonkeys, k + 1)
            ELSE Separate(adjustedPos, id, radius, otherMonkeys, k + 1)

resolveMonkeyCollision(monkey, otherMonkeys) ==
    Separate(monkey.position, monkey.id, monkey.collisionRadius, otherMonkeys, 1)

\* engine.ts 670-674: the copies the per-agent pass reads.
ClearUnderAttack(monkeys) ==
    [i \in 1..Len(monkeys) |-> [monkeys[i] EXCEPT !.isUnderAttack = FALSE]]

PickEnemyWhateverMode(self, monkeys, fightingEnabled) ==
    IF findNearestThreatenedAlly(self, monkeys) # 0
    THEN findNearestThreatenedAlly(self, monkeys)
    ELSE findNearestEnemy(self, monkeys)
\* engine.ts 682-684: index in monkeys of `enemy`, 0 for null/undefined.
PickEnemy(self, monkeys, fightingEnabled) ==
    IF ~fightingEnabled THEN 0
    ELSE IF findNearestThreatenedAlly(self, monkeys) # 0
         THEN findNearestThreatenedAlly(self, monkeys)
         ELSE findNearestEnemy(self, monkeys)

CooldownIgnored(now, lastAttackAtMs) == TRUE
\* engine.ts 749: the cooldown since the agent's last attack is over.
CooldownOver(now, lastAttackAtMs) == now - lastAttackAtMs >= ATTACK_COOLDOWN_MS

\* engine.ts 682-716: the agent reaches the randomDir() of line 715.
WanderDraws(self, monkeys, bananas, now, fightingEnabled) ==
    /\ PickEnemy(self, monkeys, fightingEnabled) = 0
    /\ findNearestBanana(self, bananas) = 0
    /\ (now >= self.wanderChangeAtMs \/ self.isFighting)

\* engine.ts 686-690: isFighting of the tick.
InAttackRange(self, monkeys, fightingEnabled) ==
    LET e == PickEnemy(self, monkeys, fightingEnabled)
    IN e # 0 /\ Dist(monkeys[e].position, self.position) <= ATTACK_RANGE * PX

IntendedVelocityBananaFirst(self, monkeys, bananas, now, fightingEnabled, wanderDir) ==
    LET e == PickEnemy(self, monkeys, fightingEnabled)
        nearestBanana == findNearestBanana(self, bananas)
    IN IF nearestBanana # 0
       THEN Sign(bananas[nearestBanana].position - self.position)
       ELSE IF e # 0
            THEN IF InAttackRange(self, monkeys, fightingEnabled) THEN 0
                 ELSE Sign(monkeys[e].position - self.position)
            ELSE IF WanderDraws(self, monkeys, bananas, now, fightingEnabled)
                 THEN wanderDir
                 ELSE self.velocity
\* engine.ts 686-717: desiredVelocity before the boundary check.
IntendedVelocity(self, monkeys, bananas, now, fightingEnabled, wanderDir) ==
    LET e == PickEnemy(self, monkeys, fightingEnabled)
        nearestBanana == findNearestBanana(self, bananas)
    IN IF e # 0
       THEN IF InAttackRange(self, monkeys, fightingEnabled) THEN 0
            ELSE Sign(monkeys[e].position - self.position)
       ELSE IF nearestBanana # 0
            THEN Sign(bananas[nearestBanana].position - self.position)
            ELSE IF WanderDraws(self, monkeys, bananas, now, fightingEnabled)
                 THEN wanderDir
                 ELSE self.velocity

\* engine.ts 723-734: hitBoundary for the agent moving at velocity v.
HitBoundary(self, v, dtMs) ==
    LET stats == getMonkeyStats(self.monkeyType)
        proposedPos == self.position + (v * stats.speed * dtMs) \div 1000
        clamped == clamp(proposedPos, stats.size \div 2, Width - stats.size \div 2)
    IN checkBoundaryCollisions(proposedPos, clamped, stats.size)

\* engine.ts 713-716 and 737-739: the ids of the agents of w for which the
\* tick at now calls randomDir().
HeadingDrawn(w, dtMs, now, fightingEnabled) ==
    LET monkeys == ClearUnderAttack(w.monkeys)
    IN {monkeys[i].id : i \in {k \in 1..Len(monkeys) :
          \/ WanderDraws(monkeys[k], monkeys, w.bananas, now, fightingEnabled)
          \/ /\ ~InAttackRange(monkeys[k], monkeys, fightingEnabled)
             /\ HitBoundary(monkeys[k],
                            IntendedVelocity(monkeys[k], monkeys, w.bananas, now,
                                             fightingEnabled, monkeys[k].velocity),
                            dtMs)}}

\* engine.ts 676-795, the body of the per-agent map.  wanderDir and wallDir are
\* the randomDir() draws of lines 715 and 738.
StepMonkey(self, monkeys, bananas, dtMs, now, fightingEnabled, wanderDir, wallDir) ==
    LET e == PickEnemy(self, monkeys, fightingEnabled)
        isFighting == InAttackRange(self, monkeys, fightingEnabled)
        v1 == IntendedVelocity(self, monkeys, bananas, now, fightingEnabled, wanderDir)
        stats == getMonkeyStats(self.monkeyType)
        proposedPos == self.position + (v1 * stats.speed * dtMs) \div 1000
        clamped == clamp(proposedPos, stats.size \div 2, Width - stats.size \div 2)
        hitBoundary == HitBoundary(self, v1, dtMs)
        desiredVelocity == IF ~isFighting /\ hitBoundary THEN wallDir ELSE v1
        pos == resolveMonkeyCollision([self EXCEPT !.position = clamped], monkeys)
        attacks == /\ e # 0
                   /\ Dist(monkeys[e].position, pos) <= ATTACK_RANGE * PX
                   /\ CooldownOver(now, self.lastAttackAtMs)
    IN [self EXCEPT !.position = pos,
                    !.velocity = desiredVelocity,
                    !.lastAttackAtMs = IF attacks THEN now ELSE @,
                    !.targetId = IF attacks THEN monkeys[e].id ELSE @,
                    !.wanderChangeAtMs = now + WANDER_INTERVAL_MS,
                    !.isFighting = isFighting]

\* Array.find by id: the first index, 0 for undefined.
FindById(next, id) ==
    IF \E j \in 1..Len(next) : next[j].id = id
    THEN CHOOSE j \in 1..Len(next) :
            next[j].id = id /\ \A k \in 1..(j - 1) : next[k].id # id
    ELSE 0

\* engine.ts 805: the hit connects.
InRange(attacker, victim) ==
    Dist(victim.position, attacker.position) <= ATTACK_RANGE * PX

HitUncredited(victim, attacker) ==
    LET newHp == Max(0, victim.hp - getMonkeyStats(attacker.monkeyType).damage)
    IN [victim EXCEPT !.hp = newHp,
                      !.isUnderAttack = TRUE]
HitKilledByOwnTeam(victim, attacker) ==
    LET newHp == Max(0, victim.hp - getMonkeyStats(attacker.monkeyType).damage)
    IN [victim EXCEPT !.hp = newHp,
                      !.isUnderAttack = TRUE,
                      !.killedBy = IF victim.hp > 0 /\ newHp <= 0
                                   THEN victim.teamId ELSE @]
HitOwnDamage(victim, attacker) ==
    LET newHp == Max(0, victim.hp - getMonkeyStats(victim.monkeyType).damage)
    IN [victim EXCEPT !.hp = newHp,
                      !.isUnderAttack = TRUE,
                      !.killedBy = IF victim.hp > 0 /\ newHp <= 0
                                   THEN attacker.teamId ELSE @]
\* engine.ts 807-814: the victim after a hit by the attacker.
Hit(victim, attacker) ==
    LET newHp == Max(0, victim.hp - getMonkeyStats(attacker.monkeyType).damage)
    IN [victim EXCEPT !.hp = newHp,
                      !.isUnderAttack = TRUE,
                      !.killedBy = IF victim.hp > 0 /\ newHp <= 0
                                   THEN attacker.teamId ELSE @]

\* engine.ts 800-805: the index of the victim the i-th agent hits, 0 for none.
VictimOf(next, i) ==
    IF next[i].targetId = NoId THEN 0
    ELSE LET j == FindById(next, next[i].targetId)
         IN IF j = 0 THEN 0
            ELSE IF next[j].teamId = next[i].teamId THEN 0
            ELSE IF InRange(next[i], next[j]) THEN j ELSE 0

KeepsTargetAlways(next, i) == TRUE
\* engine.ts 800-803: the `continue`s that skip line 816.
KeepsTarget(next, i) ==
    \/ next[i].targetId = NoId
    \/ FindById(next, next[i].targetId) = 0
    \/ next[FindById(next, next[i].targetId)].teamId = next[i].teamId

\* engine.ts 799-817: the damage loop from the i-th attacker on; acc is
\* [next, hits]: next as mutated so far and the hits applied so far, in order.
RECURSIVE DamageFrom(_, _)
DamageFrom(acc, i) ==
    IF i > Len(acc.next) THEN acc
    ELSE LET next == acc.next
             j == VictimOf(next, i)
             hit == IF j = 0 THEN next ELSE [next EXCEPT ![j] = Hit(@, next[i])]
             done == IF KeepsTarget(next, i) THEN hit
                     ELSE [hit EXCEPT ![i].targetId = NoId]
             hits == IF j = 0 THEN acc.hits
                     ELSE Append(acc.hits,
                                 [attacker |-> next[i].id, victim |-> next[j].id,
                                  attackerHp |-> next[i].hp,
                                  from |-> next[j].hp, to |-> hit[j].hp])
         IN DamageFrom([next |-> done, hits |-> hits], i + 1)

\* engine.ts 820-822
ClearTargets(next) == [i \in 1..Len(next) |-> [next[i] EXCEPT !.targetId = NoId]]

\* engine.ts 797-823: [next, hits] after the damage pass.
ApplyDamage(next, fightingEnabled) ==
    IF fightingEnabled THEN DamageFrom([next |-> next, hits |-> <<>>], 1)
    ELSE [next |-> ClearTargets(next), hits |-> <<>>]

RECURSIVE SelectSeq2(_, _)
SelectSeq2(s, keep) ==
    IF s = <<>> THEN <<>>
    ELSE IF keep[1] THEN <<Head(s)>> \o SelectSeq2(Tail(s), Tail(keep))
    ELSE SelectSeq2(Tail(s), Tail(keep))

\* engine.ts 825-826
AliveOf(next) == SelectSeq2(next, [i \in 1..Len(next) |-> next[i].hp > 0])
DeadOf(next) == SelectSeq2(next, [i \in 1..Len(next) |-> next[i].hp <= 0])

\* engine.ts 830-844: the ledger after the deaths are booked, one dead agent at a time.
RECURSIVE BookDeaths(_, _)
BookDeaths(teamStats, dead) ==
    IF dead = <<>> THEN teamStats
    ELSE LET t == TeamIndex(teamStats, Head(dead).teamId)
             s1 == IF t = 0 THEN teamStats
                   ELSE [teamStats EXCEPT ![t].alive = Max(0, @ - 1), ![t].dead = @ + 1]
             k == IF Head(dead).killedBy = NoTeam THEN 0
                  ELSE TeamIndex(s1, Head(dead).killedBy)
             s2 == IF k = 0 THEN s1 ELSE [s1 EXCEPT ![k].kills = @ + 1]
         IN BookDeaths(s2, Tail(dead))

CountTeam(monkeys, teamId) ==
    Cardinality({i \in 1..Len(monkeys) : monkeys[i].teamId = teamId})

\* engine.ts 847-850
RecountAlive(teamStats, alive) ==
    [t \in 1..Len(teamStats) |->
        [teamStats[t] EXCEPT !.alive = CountTeam(alive, teamStats[t].teamId)]]

(* -------------------------- spawnFromReserves ------------------------- *)
\* engine.ts 521-523: how many of a team's reserves are promoted.
PromoteCount(reserves, availableSlots, slotsUsed) ==
    IF reserves = 0 \/ slotsUsed >= availableSlots THEN 0
    ELSE Min(reserves, availableSlots - slotsUsed)

PromoteStatsKeepAlive(stats, monkeysToSpawn) == [stats EXCEPT !.reserves = @ - monkeysToSpawn]
PromoteStatsKeepReserves(stats, monkeysToSpawn) == [stats EXCEPT !.alive = @ + monkeysToSpawn]
\* engine.ts 559-560
PromoteStats(stats, monkeysToSpawn) ==
    [stats EXCEPT !.reserves = @ - monkeysToSpawn, !.alive = @ + monkeysToSpawn]

PromotedTypeSmall(stats) == "small"
\* engine.ts 532-536: the tier of the agents promoted for a team.
PromotedType(stats) == stats.monkeyType

\* engine.ts 520-566: the loop over the ledger from the t-th team on; acc is
\* [teamStats, newMonkeys], slotsUsed = Len(acc.newMonkeys).
RECURSIVE PromoteFrom(_, _, _, _)
PromoteFrom(acc, t, availableSlots, rnd) ==
    IF t > Len(acc.teamStats) THEN acc
    ELSE LET stats == acc.teamStats[t]
             slotsUsed == Len(acc.newMonkeys)
             monkeysToSpawn == PromoteCount(stats.reserves, availableSlots, slotsUsed)
             created == [k \in 1..monkeysToSpawn |->
                            NewMonkey(rnd.firstId + slotsUsed + k - 1, stats.teamId,
                                      PromotedType(stats),
                                      rnd.base[slotsUsed + 1] + rnd.jit[slotsUsed + k],
                                      rnd.dir[slotsUsed + k])]
         IN PromoteFrom([teamStats |-> [acc.teamStats EXCEPT
                                           ![t] = PromoteStats(@, monkeysToSpawn)],
                         newMonkeys |-> acc.newMonkeys \o created],
                        t + 1, availableSlots, rnd)

spawnFromReserves(w, rnd) ==
    IF AvailableSlots(w) = 0 THEN w
    ELSE LET acc == PromoteFrom([teamStats |-> w.teamStats, newMonkeys |-> <<>>],
                                1, AvailableSlots(w), rnd)
         IN [monkeys |-> w.monkeys \o acc.newMonkeys,
             teamStats |-> acc.teamStats,
             teamPools |-> w.teamPools,
             bananas |-> w.bananas]

RECURSIVE TotalReserves(_)
TotalReserves(teamStats) ==
    IF teamStats = <<>> THEN 0 ELSE Head(teamStats).reserves + TotalReserves(Tail(teamStats))

(* ------------------------------- bananas ------------------------------ *)
\* engine.ts 138-141: the banana is within the agent's collection range.
InCollectionRange(monkey, banana) ==
    Dist(monkey.position, banana.position)
        <= getMonkeyStats(monkey.monkeyType).size \div 2 + (BANANA_SIZE * PX) \div 2

HealedUncapped(monkey, banana) == monkey.hp + (monkey.maxHp * banana.healAmount) \div 100
\* engine.ts 143-144: hp after the banana; healAmount is a percentage here.
Healed(monkey, banana) ==
    Min(monkey.maxHp, monkey.hp + (monkey.maxHp * banana.healAmount) \div 100)

\* engine.ts 133-156: index in newBananas of the banana the agent takes, 0 for none.
FirstBananaInRange(monkey, newBananas) ==
    IF \E i \in 1..Len(newBananas) : InCollectionRange(monkey, newBananas[i])
    THEN CHOOSE i \in 1..Len(newBananas) :
            /\ InCollectionRange(monkey, newBananas[i])
            /\ \A k \in 1..(i - 1) : ~InCollectionRange(monkey, newBananas[k])
    ELSE 0

TakesAny(monkey, newBananas) == FirstBananaInRange(monkey, newBananas)
\* engine.ts 130-156: the banana the agent takes from newBananas, 0 for none.
Takes(monkey, newBananas) ==
    IF ~canCollectBanana(monkey) THEN 0 ELSE FirstBananaInRange(monkey, newBananas)

RemoveAtKeepsAll(s, i) == s
\* engine.ts 146: newBananas.splice(i, 1)
RemoveAt(s, i) == [k \in 1..(Len(s) - 1) |-> IF k < i THEN s[k] ELSE s[k + 1]]

\* engine.ts 129-159: the map over the agents from the i-th on; acc is
\* [monkeys, bananas, took], took[i] the id of the banana agent i collected.
RECURSIVE CollectFrom(_, _)
CollectFrom(acc, i) ==
    IF i > Len(acc.monkeys) THEN acc
    ELSE LET monkey == acc.monkeys[i]
             b == Takes(monkey, acc.bananas)
         IN IF b = 0 THEN CollectFrom([acc EXCEPT !.took = Append(@, NoId)], i + 1)
            ELSE CollectFrom([monkeys |-> [acc.monkeys EXCEPT
                                              ![i].hp = Healed(monkey, acc.bananas[b])],
                              bananas |-> RemoveAt(acc.bananas, b),
                              took |-> Append(acc.took, acc.bananas[b].id)],
                             i + 1)

Collected(w) == CollectFrom([monkeys |-> w.monkeys, bananas |-> w.bananas, took |-> <<>>], 1)

collectBananas(w) ==
    LET c == Collected(w) IN [w EXCEPT !.monkeys = c.monkeys, !.bananas = c.bananas]

\* engine.ts 79-89; bananaRnd = [id, position] are generateBananaId() and the
\* random position.
spawnBanana(bananaRnd) ==
    [id |-> bananaRnd.id, position |-> bananaRnd.position, healAmount |-> BANANA_HEAL_PERCENT]

manageBananasAlways(w, bananaRnd) == [w EXCEPT !.bananas = Append(@, spawnBanana(bananaRnd))]
manageBananas(w, bananaRnd) ==
    IF Len(w.bananas) < MAX_BANANAS
    THEN [w EXCEPT !.bananas = Append(@, spawnBanana(bananaRnd))]
    ELSE w

(* --------------------------- stepWorld, whole ------------------------- *)
\* engine.ts 676-795: every result of the per-agent map, one per combination
\* of the agents' randomDir() draws.
RECURSIVE NextFrom(_, _, _, _, _, _)
NextFrom(monkeys, bananas, dtMs, now, fightingEnabled, i) ==
    IF i > Len(monkeys) THEN {<<>>}
    ELSE {<<m>> \o rest :
            m \in {StepMonkey(monkeys[i], monkeys, bananas, dtMs, now, fightingEnabled, wd, ld) :
                      wd \in Dirs, ld \in Dirs},
            rest \in NextFrom(monkeys, bananas, dtMs, now, fightingEnabled, i + 1)}

PerAgentPass(w, dtMs, now, fightingEnabled) ==
    NextFrom(ClearUnderAttack(w.monkeys), w.bananas, dtMs, now, fightingEnabled, 1)

\* engine.ts 797-857: the damage pass, then the bookkeeping of the deaths:
\* [world, hits, dead].
Reconciled(w, next, fightingEnabled) ==
    LET d == ApplyDamage(next, fightingEnabled)
        alive == AliveOf(d.next)
        dead == DeadOf(d.next)
    IN [world |-> [monkeys |-> alive,
                   teamStats |-> RecountAlive(BookDeaths(w.teamStats, dead), alive),
                   teamPools |-> w.teamPools,
                   bananas |-> w.bananas],
        hits |-> d.hits,
        dead |-> dead]

PromotedNever(rec, rnd) == rec.world
\* engine.ts 859-862
Promoted(rec, rnd) ==
    IF Len(rec.dead) > 0 THEN spawnFromReserves(rec.world, rnd) ELSE rec.world

\* The agents a tick promotes: the draws it takes from generateId/random.
PromotionSlots(rec) ==
    IF Len(rec.dead) > 0
    THEN Min(AvailableSlots(rec.world), TotalReserves(rec.world.teamStats))
    ELSE 0

\* engine.ts 859-870: stepWorld from the reconciled world on.
FinishStep(rec, rnd, bananaRnd) ==
    manageBananas(collectBananas(Promoted(rec, rnd)), bananaRnd)

(* ---------------------------- observations ---------------------------- *)
Ids(monkeys) == {monkeys[i].id : i \in 1..Len(monkeys)}

\* What the last engine call did, for the properties that relate a call's
\* input to its result.
ObsInit == [op |-> "init"]

ObsSpawn(w, count, teamId, monkeyType) ==
    [op |-> "spawn", count |-> count, teamId |-> teamId, monkeyType |-> monkeyType,
     lenBefore |-> Len(w.monkeys),
     reservesBefore |-> IF TeamIndex(w.teamStats, teamId) = 0 THEN 0
                        ELSE w.teamStats[TeamIndex(w.teamStats, teamId)].reserves]

\* For input agent i: the nearest other teammate flagged isUnderAttack in the
\* world passed in, and the `enemy` line 684 picked (ids, NoId for none).
Rescue(w, fightingEnabled) ==
    [i \in 1..Len(w.monkeys) |->
        LET self == w.monkeys[i]
            a == NearestOf({j \in 1..Len(w.monkeys) :
                               /\ j # i
                               /\ w.monkeys[j].teamId = self.teamId
                               /\ w.monkeys[j].isUnderAttack},
                           self.position, w.monkeys)
            e == PickEnemy(self, ClearUnderAttack(w.monkeys), fightingEnabled)
        IN [id |-> self.id,
            ally |-> IF a = 0 THEN NoId ELSE w.monkeys[a].id,
            picked |-> IF e = 0 THEN NoId ELSE w.monkeys[e].id]]

\* engine.ts 829, 510: new Map(world.teamStats) copies the Map, not the team
\* records; lines 833-849 and 559-560 assign to the records the input Map
\* holds too.  The input Map's records as they read once updated is returned.
InputTeamStatsAfter(teamStats, updated) ==
    [t \in 1..Len(teamStats) |-> updated[TeamIndex(updated, teamStats[t].teamId)]]

ObsStep(w, rec, now, fightingEnabled, rnd) ==
    LET pro == Promoted(rec, rnd)
    IN [op |-> "step", now |-> now, fightingEnabled |-> fightingEnabled,
        turnedBefore |-> turnedAt,
        teamStatsBefore |-> w.teamStats,
        teamStatsAfter |-> InputTeamStatsAfter(w.teamStats, pro.teamStats),
        input |-> [i \in 1..Len(w.monkeys) |->
                      [id |-> w.monkeys[i].id, teamId |-> w.monkeys[i].teamId,
                       monkeyType |-> w.monkeys[i].monkeyType,
                       hp |-> w.monkeys[i].hp,
                       position |-> w.monkeys[i].position,
                       velocity |-> w.monkeys[i].velocity,
                       wanderChangeAtMs |-> w.monkeys[i].wanderChangeAtMs,
                       isFighting |-> w.monkeys[i].isFighting,
                       isUnderAttack |-> w.monkeys[i].isUnderAttack,
                       ready |-> now - w.monkeys[i].lastAttackAtMs >= ATTACK_COOLDOWN_MS,
                       inset |-> /\ w.monkeys[i].position
                                      >= getMonkeyStats(w.monkeys[i].monkeyType).size \div 2
                                 /\ w.monkeys[i].position
                                      <= Width - getMonkeyStats(w.monkeys[i].monkeyType).size \div 2]],
        rescue |-> Rescue(w, fightingEnabled),
        hits |-> rec.hits,
        deadIds |-> Ids(rec.dead),
        deadBy |-> [k \in 1..Len(rec.dead) |->
                      [id |-> rec.dead[k].id, teamId |-> rec.dead[k].teamId,
                       killedBy |-> rec.dead[k].killedBy]],
        survivors |-> Len(rec.world.monkeys),
        reservesBefore |-> TotalReserves(rec.world.teamStats),
        promoted |-> Len(pro.monkeys) - Len(rec.world.monkeys),
        hpBefore |-> [i \in 1..Len(pro.monkeys) |-> pro.monkeys[i].hp],
        bananasBefore |-> pro.bananas,
        took |-> Collected(pro).took]

\* turnedAt[id]: the `now` of the tick in which agent id last drew a heading
\* from randomDir() (engine.ts 715, 738), kept by the specifications that
\* follow headings.
\* dealtAt[id]: the `now` of the ticks in which agent id's hit was applied.
Dealt(hits, id) == \E k \in 1..Len(hits) : hits[k].attacker = id

(* ------------------------------- actions ------------------------------ *)
Init ==
    /\ world = createWorld
    /\ clock = 0
    /\ nextId = 1
    /\ nextBananaId = 1
    /\ ticks = 0
    /\ txs = 0
    /\ last = ObsInit
    /\ dealtAt = [x \in {} |-> <<>>]
    /\ turnedAt = [x \in {} |-> 0]
    /\ topRequested = [x \in {} |-> "small"]
    /\ reservedAs = [x \in {} |-> {}]
    /\ wall = 1
    /\ resetTimestamp = 0
    /\ pollers = <<>>
    /\ calls = {}

\* topRequested[teamId]: the costliest tier among the spawnMonkeys calls made
\* for the team with a positive count (the calls engine.ts 419 lets through).
RECURSIVE NoteRequests(_, _)
NoteRequests(top, requests) ==
    IF requests = <<>> THEN top
    ELSE LET r == Head(requests)
             noted == [t \in DOMAIN top \cup {r.teamId} |->
                          IF t # r.teamId THEN top[t]
                          ELSE IF t \in DOMAIN top
                                  /\ MONKEY_COSTS(top[t]) >= MONKEY_COSTS(r.type)
                               THEN top[t] ELSE r.type]
         IN NoteRequests(IF r.count > 0 THEN noted ELSE top, Tail(requests))

\* reservedAs[teamId]: the tiers of the spawnMonkeys calls that sent agents of
\* the team to its reserves (engine.ts 427-434, 449); len is world.monkeys.length
\* at the call.
RECURSIVE NoteReserves(_, _, _)
NoteReserves(res, len, requests) ==
    IF requests = <<>> THEN res
    ELSE LET r == Head(requests)
             monkeysToSpawn == Min(Max(0, r.count), Max(0, MaxMonkeys - len))
             noted == [t \in DOMAIN res \cup {r.teamId} |->
                          (IF t \in DOMAIN res THEN res[t] ELSE {})
                          \cup (IF t = r.teamId THEN {r.type} ELSE {})]
         IN NoteReserves(IF r.count > monkeysToSpawn THEN noted ELSE res,
                         len + monkeysToSpawn, Tail(requests))

RECURSIVE TotalSpawned(_)
TotalSpawned(teamStats) ==
    IF teamStats = <<>> THEN 0 ELSE Head(teamStats).spawned + TotalSpawned(Tail(teamStats))

\* A spawnMonkeys call, its tier among tiers, its position among bases, while
\* no more than cap agents were requested in all.
SpawnMonkeys(tiers, bases, cap) ==
    \E teamId \in Teams, monkeyType \in tiers, count \in 1..cap :
        /\ ticks < MaxTicks
        /\ TotalSpawned(world.teamStats) + count <= cap
        /\ \E rnd \in Draws(MonkeysToSpawn(world, count), nextId, bases) :
              /\ world' = spawnMonkeys(world, count, teamId, monkeyType, rnd, 0)
              /\ nextId' = nextId + MonkeysToSpawn(world, count)
        /\ last' = ObsSpawn(world, count, teamId, monkeyType)
        /\ topRequested' = NoteRequests(topRequested,
                                        <<[teamId |-> teamId, type |-> monkeyType,
                                           count |-> count]>>)
        /\ reservedAs' = NoteReserves(reservedAs, Len(world.monkeys),
                                      <<[teamId |-> teamId, type |-> monkeyType,
                                         count |-> count]>>)
        /\ UNCHANGED <<clock, nextBananaId, ticks, txs, dealtAt, turnedAt>>
        /\ UNCHANGED pollerVars

\* What a processTransaction call was given: the event and the world before.
ObsTx(w, transaction, repeated) ==
    [op |-> "tx", transaction |-> transaction, repeated |-> repeated, before |-> w]

\* game-canvas.tsx 233: the poller's callback applies a transaction, a new
\* event (a fresh signature) or the event of the call just before, delivered
\* again; at most cap calls.
ProcessTransaction(wallets, sols, cap) ==
    /\ ticks < MaxTicks
    /\ txs < cap
    /\ \E transaction \in
            {[signature |-> txs + 1, teamId |-> teamId, wallet |-> wallet,
              sol |-> sol, isSell |-> isSell] :
                teamId \in Teams, wallet \in wallets, sol \in sols, isSell \in BOOLEAN}
            \cup (IF last.op = "tx" THEN {last.transaction} ELSE {}) :
          /\ world' = processTransaction(world, transaction)
          /\ last' = ObsTx(world, transaction,
                           last.op = "tx" /\ last.transaction = transaction)
    /\ txs' = txs + 1
    /\ UNCHANGED <<clock, nextId, nextBananaId, ticks, dealtAt, turnedAt, topRequested, reservedAs>>
    /\ UNCHANGED pollerVars

\* game-canvas.tsx 204-217: the spawn timer sweeps the pools; again tells that
\* the operation just before was a sweep too.
SpawnMonkeysFromPools(bases) ==
    LET requested == RequestedCount(PoolRequests(world.teamPools))
        n == Min(requested, AvailableSlots(world))
    IN /\ requested > 0
       /\ ticks < MaxTicks
       /\ TotalSpawned(world.teamStats) + requested <= MaxSpawned
       /\ \E rnd \in Draws(n, nextId, bases) :
             world' = spawnMonkeysFromPools(world, rnd)
       /\ nextId' = nextId + n
       /\ last' = [op |-> "sweep", again |-> last.op = "sweep"]
       /\ topRequested' = NoteRequests(topRequested, PoolRequests(world.teamPools))
       /\ reservedAs' = NoteReserves(reservedAs, Len(world.monkeys),
                                     PoolRequests(world.teamPools))
       /\ UNCHANGED <<clock, nextBananaId, ticks, txs, dealtAt, turnedAt>>
       /\ UNCHANGED pollerVars

\* game-canvas.tsx 410-425: one animation frame; now advances by one of steps,
\* fightingEnabled is one of modes, promoted agents appear among bases and the
\* new banana among bananaXs.
StepWorld(steps, modes, bases, bananaXs, cap, headings) ==
    \E step \in steps, fightingEnabled \in modes :
      LET now == clock + step
          dtMs == Min(MaxDtMs, step) IN
        /\ ticks < cap
        /\ \E next \in PerAgentPass(world, dtMs, now, fightingEnabled) :
             LET rec == Reconciled(world, next, fightingEnabled) IN
               \E rnd \in Draws(PromotionSlots(rec), nextId, bases) :
               \E bx \in bananaXs :
                  /\ world' = FinishStep(rec, rnd, [id |-> nextBananaId, position |-> bx])
                  /\ last' = ObsStep(world, rec, now, fightingEnabled, rnd)
                  /\ nextId' = nextId + PromotionSlots(rec)
                  /\ nextBananaId' =
                       IF Len(collectBananas(Promoted(rec, rnd)).bananas) < MAX_BANANAS
                       THEN nextBananaId + 1 ELSE nextBananaId
                  /\ dealtAt' =
                       [id \in Ids(world'.monkeys) \cap
                               (DOMAIN dealtAt \cup
                                {rec.hits[k].attacker : k \in 1..Len(rec.hits)}) |->
                           (IF id \in DOMAIN dealtAt THEN dealtAt[id] ELSE <<>>)
                           \o (IF Dealt(rec.hits, id) THEN <<now>> ELSE <<>>)]
                  /\ turnedAt' =
                       IF headings
                       THEN [id \in Ids(world'.monkeys) \cap
                                    (DOMAIN turnedAt \cup
                                     HeadingDrawn(world, dtMs, now, fightingEnabled)) |->
                                IF id \in HeadingDrawn(world, dtMs, now, fightingEnabled)
                                THEN now ELSE turnedAt[id]]
                       ELSE turnedAt
        /\ UNCHANGED <<topRequested, reservedAs>>
        /\ clock' = now
        /\ ticks' = ticks + 1
        /\ txs' = txs
        /\ UNCHANGED pollerVars

(* ------------------------------ pumpPoller ---------------------------- *)
MIN_SOL_FOR_TRANSACTION == SMALL_MONKEY_PRICE
PUMP_FUN_FEE_PERCENT == 1
MsPerSecond == 1000

\* The chain's swaps as Birdeye lists them, txHash by txHash: a buy of the
\* token, a sell of it, an item without its `from` object, and a swap of some
\* other pair; two transactions per second of block time.  uiAmount is the SOL
\* side of the swap; relevant says that from/to are SOL and the token in the
\* direction side names.
BirdeyeTransaction(txHash) ==
    [txHash |-> txHash,
     blockUnixTime |-> (txHash + 1) \div 2,
     side |-> IF txHash % 4 = 2 THEN "sell" ELSE "buy",
     owner |-> "w1",
     hasFrom |-> txHash % 4 # 3,
     relevant |-> txHash % 4 # 0,
     uiAmount |-> IF txHash % 4 = 2
                  THEN 3333 * (SOL \div (100 * 100))
                  ELSE 14 * SOL - 5 * (SOL \div 1000)]

\* What one fetch can answer at second now: up to MaxItems items, each a
\* transaction already on the chain, a transaction possibly listed twice.
Listed(now) == {h \in 1..MaxHash : BirdeyeTransaction(h).blockUnixTime <= now}
Responses(now) ==
    UNION {[1..n -> Listed(now)] : n \in 0..MaxItems}

\* pumpPoller.ts 97-109
isRelevantTransaction(tx) ==
    [isBuy |-> tx.side = "buy" /\ tx.relevant,
     isSell |-> tx.side = "sell" /\ tx.relevant]

\* pumpPoller.ts 152-167, of an amount whose quotient and product are exact.
PollerTeamId(solAmount) ==
    LET roundedCents == CeilDiv(solAmount * 100 * 100, (100 - PUMP_FUN_FEE_PERCENT) * SOL)
    IN Digits[(roundedCents % 10) + 1]

\* pumpPoller.ts 227
RoundedSol(sol) == CeilDiv(sol * 100, SOL) * (SOL \div 100)

\* pumpPoller.ts 223-236
TransactionEvent(tx) ==
    [signature |-> tx.txHash,
     wallet |-> tx.owner,
     sol |-> RoundedSol(tx.uiAmount),
     isSell |-> isRelevantTransaction(tx).isSell,
     teamId |-> PollerTeamId(tx.uiAmount),
     ts |-> tx.blockUnixTime * MsPerSecond]

\* pumpPoller.ts 196-198
NewTransactions(items, processedTransactions) ==
    SelectSeq(items, LAMBDA h : h \notin processedTransactions)

\* pumpPoller.ts 207: Array.prototype.sort is stable.
RECURSIVE InsertByTime(_, _)
InsertByTime(sorted, h) ==
    IF sorted = <<>> THEN <<h>>
    ELSE IF BirdeyeTransaction(Head(sorted)).blockUnixTime
              <= BirdeyeTransaction(h).blockUnixTime
         THEN <<Head(sorted)>> \o InsertByTime(Tail(sorted), h)
         ELSE <<h>> \o sorted

RECURSIVE SortByTime(_)
SortByTime(items) ==
    IF items = <<>> THEN <<>>
    ELSE InsertByTime(SortByTime(SubSeq(items, 1, Len(items) - 1)), items[Len(items)])

\* game-canvas.tsx 224-230: the callback of the effect run that saw
\* resetTimestamp = watermark lets the event through.
PassesWatermark(transaction, watermark) ==
    /\ ~(transaction.sol < MIN_SOL_FOR_TRANSACTION)
    /\ ~(watermark > 0 /\ transaction.ts < watermark)

\* game-canvas.tsx 223-233
OnTransaction(w, transaction, watermark) ==
    IF PassesWatermark(transaction, watermark)
    THEN processTransaction(w, transaction)
    ELSE w

\* One onTransaction call of poller i, as the properties see it: whether
\* stop() had returned, the resetTimestamp in force, whether the callback
\* applied the event, and how many calls poller i made for this hash so far.
Call(i, poller, event, made, stateNow) ==
    [poller |-> i, txHash |-> event.signature, ts |-> event.ts,
     afterStop |-> ~poller.running,
     resetAt |-> stateNow,
     applied |-> PassesWatermark(event, poller.watermark),
     nth |-> 1 + Cardinality({c \in made : c.poller = i /\ c.txHash = event.signature})]

\* pumpPoller.ts 209-263: the loop over newTransactions, st = the world, the
\* calls made and processedTransactions so far.  Line 214 throws on an item
\* without `from`; line 262 marks the hash whatever happened.
RECURSIVE HandleAll(_, _, _, _, _)
HandleAll(newTransactions, st, i, poller, stateNow) ==
    IF newTransactions = <<>> THEN st
    ELSE LET tx == BirdeyeTransaction(Head(newTransactions))
             threw == ~tx.hasFrom
             called == /\ ~threw
                       /\ isRelevantTransaction(tx).isBuy \/ isRelevantTransaction(tx).isSell
             event == TransactionEvent(tx)
         IN HandleAll(Tail(newTransactions),
                      [world |-> IF called
                                 THEN OnTransaction(st.world, event, poller.watermark)
                                 ELSE st.world,
                       calls |-> IF called
                                 THEN st.calls \cup {Call(i, poller, event, st.calls, stateNow)}
                                 ELSE st.calls,
                       processedTransactions |->
                           st.processedTransactions \cup {tx.txHash}],
                      i, poller, stateNow)

\* pumpPoller.ts 169-179, 277 and game-canvas.tsx 222-223: a poller created
\* and started; its first tick has reached the await of line 186.
NewPoller(watermark) ==
    [running |-> TRUE, timer |-> FALSE, fetching |-> TRUE,
     processedTransactions |-> {}, watermark |-> watermark]

\* pumpPoller.ts 280-285
stop(poller) == [poller EXCEPT !.running = FALSE, !.timer = FALSE]

\* game-canvas.tsx 220-223: the effect's first run.
Mount ==
    /\ pollers = <<>>
    /\ pollers' = <<NewPoller(resetTimestamp)>>
    /\ UNCHANGED <<world, clock, nextId, nextBananaId, ticks, txs, last, dealtAt, turnedAt,
                     topRequested, reservedAs,
                   wall, resetTimestamp, calls>>

\* A second of wall-clock time passes.
Advance ==
    /\ wall < MaxWall
    /\ wall' = wall + 1
    /\ UNCHANGED <<world, clock, nextId, nextBananaId, ticks, txs, last, dealtAt, turnedAt,
                     topRequested, reservedAs,
                   resetTimestamp, pollers, calls>>

\* pumpPoller.ts 186-274: the fetch of poller i's tick settles, with no data
\* (188-191, or a rejected fetch, 270) or with items; the rest of the tick
\* runs to its end, and line 273 arms the timer.
FetchReturns ==
    \E i \in 1..Len(pollers) :
        /\ pollers[i].fetching
        /\ \/ /\ pollers' = [pollers EXCEPT ![i].fetching = FALSE, ![i].timer = TRUE]
              /\ UNCHANGED <<world, calls>>
           \/ \E items \in Responses(wall) :
                LET newTransactions ==
                        SortByTime(NewTransactions(items, pollers[i].processedTransactions))
                    st == HandleAll(newTransactions,
                                    [world |-> world, calls |-> calls,
                                     processedTransactions |->
                                         pollers[i].processedTransactions],
                                    i, pollers[i], resetTimestamp)
                IN /\ world' = st.world
                   /\ calls' = st.calls
                   /\ pollers' = [pollers EXCEPT
                                    ![i].fetching = FALSE,
                                    ![i].timer = TRUE,
                                    ![i].processedTransactions = st.processedTransactions]
        /\ UNCHANGED <<clock, nextId, nextBananaId, ticks, txs, last, dealtAt, turnedAt,
                     topRequested, reservedAs,
                       wall, resetTimestamp>>

\* pumpPoller.ts 273, 182-186: the timeout fires and tick runs up to its
\* await, or returns at line 183.
TimerFires ==
    \E i \in 1..Len(pollers) :
        /\ pollers[i].timer
        /\ pollers' = [pollers EXCEPT ![i].timer = FALSE,
                                      ![i].fetching = pollers[i].running]
        /\ UNCHANGED <<world, clock, nextId, nextBananaId, ticks, txs, last, dealtAt, turnedAt,
                     topRequested, reservedAs,
                       wall, resetTimestamp, calls>>

\* game-canvas.tsx 252-260, 248-249, 220-223: handleReset, and the render it
\* causes: when resetTimestamp changed, the effect's cleanup stops the
\* current poller and the effect starts a new one.
HandleReset ==
    LET now == wall * MsPerSecond IN
        /\ pollers # <<>>
        /\ now # resetTimestamp => Len(pollers) <= MaxResets
        /\ resetTimestamp' = now
        /\ world' = createWorld
        /\ pollers' = IF now = resetTimestamp THEN pollers
                      ELSE Append([pollers EXCEPT ![Len(pollers)] = stop(@)],
                                  NewPoller(now))
        /\ UNCHANGED <<clock, nextId, nextBananaId, ticks, txs, last, dealtAt, turnedAt,
                     topRequested, reservedAs,
                       wall, calls>>

(* ------------------- one poller, started and stopped ------------------ *)
\* pumpPoller.ts 169-175: the closure of createPumpPoller before any start().
\* timer is the handle the variable holds (0 for undefined), armed the
\* handles of the timeouts set and neither fired nor cleared, fetching the
\* number of tick calls waiting at the await of line 186.
NewLoop(watermark) ==
    [running |-> FALSE, timer |-> 0, armed |-> {}, fetching |-> 0,
     processedTransactions |-> {}, watermark |-> watermark]

\* window.setTimeout's result: a handle no pending timeout has and the timer
\* variable does not hold (a handle that fired and was forgotten is as good
\* as a new one).
FreshHandle(poller) ==
    CHOOSE h \in 1..(MaxLoops + 1) :
        /\ h \notin poller.armed \cup {poller.timer}
        /\ \A g \in 1..(h - 1) : g \in poller.armed \cup {poller.timer}

\* pumpPoller.ts 273
ArmTimer(poller) ==
    [poller EXCEPT !.timer = FreshHandle(poller),
                   !.armed = @ \cup {FreshHandle(poller)}]

\* pumpPoller.ts 182-186: a call of tick up to its await, or its return at 183.
TickCalled(poller) ==
    IF poller.running THEN [poller EXCEPT !.fetching = @ + 1] ELSE poller

\* pumpPoller.ts 177-179, 277
StartLoop(poller) ==
    IF poller.running THEN poller
    ELSE TickCalled([poller EXCEPT !.running = TRUE])

\* pumpPoller.ts 280-285: clearTimeout of a handle that fired does nothing.
StopLoop(poller) ==
    [poller EXCEPT !.running = FALSE, !.armed = @ \ {poller.timer}, !.timer = 0]

\* createPumpPoller: the one instance of the behaviour.
Create ==
    /\ pollers = <<>>
    /\ pollers' = <<NewLoop(resetTimestamp)>>
    /\ UNCHANGED <<world, clock, nextId, nextBananaId, ticks, txs, last, dealtAt, turnedAt,
                     topRequested, reservedAs,
                   wall, resetTimestamp, calls>>

\* start(onTransaction), while fewer than MaxLoops loops are under way.
Start ==
    /\ pollers # <<>>
    /\ Cardinality(pollers[1].armed) + pollers[1].fetching < MaxLoops
    /\ pollers' = [pollers EXCEPT ![1] = StartLoop(@)]
    /\ UNCHANGED <<world, clock, nextId, nextBananaId, ticks, txs, last, dealtAt, turnedAt,
                     topRequested, reservedAs,
                   wall, resetTimestamp, calls>>

\* stop()
Stop ==
    /\ pollers # <<>>
    /\ pollers' = [pollers EXCEPT ![1] = StopLoop(@)]
    /\ UNCHANGED <<world, clock, nextId, nextBananaId, ticks, txs, last, dealtAt, turnedAt,
                     topRequested, reservedAs,
                   wall, resetTimestamp, calls>>

\* pumpPoller.ts 186-274: one of the fetches in flight settles, with no data
\* or with items; the rest of that tick runs to its end and line 273 arms a
\* timeout.
FetchSettles ==
    /\ pollers # <<>>
    /\ pollers[1].fetching > 0
    /\ \/ /\ pollers' = [pollers EXCEPT ![1] = ArmTimer([@ EXCEPT !.fetching = @ - 1])]
          /\ UNCHANGED <<world, calls>>
       \/ \E items \in Responses(wall) :
            LET newTransactions ==
                    SortByTime(NewTransactions(items, pollers[1].processedTransactions))
                st == HandleAll(newTransactions,
                                [world |-> world, calls |-> calls,
                                 processedTransactions |->
                                     pollers[1].processedTransactions],
                                1, pollers[1], resetTimestamp)
            IN /\ world' = st.world
               /\ calls' = st.calls
               /\ pollers' = [pollers EXCEPT
                                ![1] = ArmTimer([@ EXCEPT
                                          !.fetching = @ - 1,
                                          !.processedTransactions =
                                              st.processedTransactions])]
    /\ UNCHANGED <<clock, nextId, nextBananaId, ticks, txs, last, dealtAt, turnedAt,
                     topRequested, reservedAs,
                   wall, resetTimestamp>>

\* pumpPoller.ts 273, 182-186: one of the pending timeouts fires and calls tick.
TimeoutFires ==
    /\ pollers # <<>>
    /\ \E h \in pollers[1].armed :
          pollers' = [pollers EXCEPT ![1] = TickCalled([@ EXCEPT !.armed = @ \ {h}])]
    /\ UNCHANGED <<world, clock, nextId, nextBananaId, ticks, txs, last, dealtAt, turnedAt,
                     topRequested, reservedAs,
                   wall, resetTimestamp, calls>>

(* --------------------------- specifications --------------------------- *)
\* The four engine operations in any order, as the driver interleaves them
\* (fightingEnabled is the constant true of game-canvas.tsx 417), every agent
\* appearing at one spot.
Next ==
    \/ SpawnMonkeys({"small", "big"}, {NearBase}, MaxSpawned)
    \/ ProcessTransaction({"w1"}, {MEDIUM_MONKEY_PRICE + SMALL_MONKEY_PRICE}, MaxTx)
    \/ SpawnMonkeysFromPools({NearBase})
    \/ StepWorld({ATTACK_COOLDOWN_MS}, {TRUE}, {NearBase}, {NearBanana}, MaxTicks, FALSE)

Spec == Init /\ [][Next]_vars

\* Spawns and ticks over the engine's whole tick interface: both spawn spots,
\* near and far bananas, ticks shorter than the cooldown, combat on and off.
NextArena ==
    \/ SpawnMonkeys({"small", "big"}, SpawnBases, MaxSpawned - 1)
    \/ StepWorld(NowSteps, BOOLEAN, SpawnBases, BananaXs, MaxTicks, FALSE)

SpecArena == Init /\ [][NextArena]_vars

\* Spawns and ticks closer together than WANDER_INTERVAL_MS, combat on and
\* off, every draw of a heading noted in turnedAt.
NextWander ==
    \/ SpawnMonkeys({"small"}, {NearBase}, MaxSpawned - 2)
    \/ StepWorld(NowSteps, BOOLEAN, {NearBase}, {NearBanana}, MaxWanderTicks, TRUE)

SpecWander == Init /\ [][NextWander]_vars

\* Spawns next to the left wall and further in, bananas on both sides of the
\* agents, combat on and off.
NextIntent ==
    \/ SpawnMonkeys({"small", "big"}, {NearWall, NearBase}, MaxSpawned - 2)
    \/ StepWorld({ATTACK_COOLDOWN_MS}, BOOLEAN, {NearBase}, {WallBanana, NearBanana},
                 MaxTicks, FALSE)

SpecIntent == Init /\ [][NextIntent]_vars

\* The ledger and the agents as spawnMonkeys and spawnFromReserves read them:
\* the counters that only grow (spawned, dead, kills) and the agents' ids are
\* set back, so that the requests and the deaths can go on for ever.
Ledger(w) ==
    [monkeys |-> [i \in 1..Len(w.monkeys) |-> [w.monkeys[i] EXCEPT !.id = i]],
     teamStats |-> [t \in 1..Len(w.teamStats) |->
                      [w.teamStats[t] EXCEPT !.spawned = 0, !.dead = 0, !.kills = 0]],
     teamPools |-> w.teamPools,
     bananas |-> w.bananas]

\* A spawnMonkeys call for one Small agent of a team.
ReserveRequest ==
    \E teamId \in Teams :
        /\ ReservesOfTeam(world.teamStats, teamId) < MaxReserves
        /\ \E rnd \in Draws(MonkeysToSpawn(world, 1), Len(world.monkeys) + 1, {NearBase}) :
              world' = Ledger(spawnMonkeys(world, 1, teamId, "small", rnd, 0))
        /\ last' = [op |-> "request", teamId |-> teamId]
        /\ UNCHANGED <<clock, nextId, nextBananaId, ticks, txs, dealtAt, turnedAt,
                       topRequested, reservedAs>>
        /\ UNCHANGED pollerVars

\* engine.ts 825-862: the end of a tick whose damage pass left the agents at
\* the indices in dying with hp 0.
DeathTick ==
    \E dying \in SUBSET (1..Len(world.monkeys)) \ {{}} :
        LET next == [i \in 1..Len(world.monkeys) |->
                        IF i \in dying THEN [world.monkeys[i] EXCEPT !.hp = 0]
                        ELSE world.monkeys[i]]
            alive == AliveOf(next)
            dead == DeadOf(next)
            rec == [world |-> [monkeys |-> alive,
                               teamStats |-> RecountAlive(BookDeaths(world.teamStats, dead),
                                                          alive),
                               teamPools |-> world.teamPools,
                               bananas |-> world.bananas],
                    hits |-> <<>>,
                    dead |-> dead]
        IN \E rnd \in Draws(PromotionSlots(rec), Len(alive) + 1, {NearBase}) :
              LET pro == Promoted(rec, rnd) IN
              /\ world' = Ledger(pro)
              /\ last' = [op |-> "deaths",
                          promotedTeams |-> {pro.monkeys[i].teamId :
                                               i \in (Len(alive) + 1)..Len(pro.monkeys)}]
              /\ UNCHANGED <<clock, nextId, nextBananaId, ticks, txs, dealtAt, turnedAt,
                             topRequested, reservedAs>>
              /\ UNCHANGED pollerVars

\* Requests and ticks with deaths.
NextReserves ==
    \/ ReserveRequest
    \/ DeathTick

\* game-canvas.tsx 204-217: the spawn timer is a setInterval, so a request
\* that stays possible is made.
SpecReserves == Init /\ [][NextReserves]_vars /\ WF_vars(ReserveRequest)

\* Two Small agents at one spot and ticks enough to fill the arena with
\* bananas, within the agents' reach or out of it.
NextBananas ==
    \/ SpawnMonkeys({"small"}, {NearBase}, MaxSpawned - 2)
    \/ StepWorld({ATTACK_COOLDOWN_MS}, {TRUE}, {NearBase}, BananaXs, MaxBananaTicks, FALSE)

SpecBananas == Init /\ [][NextBananas]_vars

\* Two Small agents at one spot, combat on and off: bananas pile up within
\* reach of agents at full hp until a tick with combat injures them.
NextPickup ==
    \/ SpawnMonkeys({"small"}, {NearBase}, MaxSpawned - 2)
    \/ StepWorld({ATTACK_COOLDOWN_MS}, BOOLEAN, {NearBase}, BananaXs, MaxPickupTicks, FALSE)

SpecPickup == Init /\ [][NextPickup]_vars

\* Spawns at two spots 10 px apart next to the left wall, closer together
\* than the agents' collision radii add up to from the first tick on.
NextCollide ==
    \/ SpawnMonkeys({"small", "big"}, {NearWall, BesideWall}, MaxSpawned - 2)
    \/ StepWorld({ATTACK_COOLDOWN_MS}, BOOLEAN, {NearBase}, {NearBanana}, MaxTicks, FALSE)

SpecCollide == Init /\ [][NextCollide]_vars

\* Funding events and pool sweeps only: buys and sells of two wallets for two
\* teams, redelivery included.
NextFunding ==
    \/ ProcessTransaction(Wallets, FundingSols, MaxFunding)
    \/ SpawnMonkeysFromPools({NearBase})

SpecFunding == Init /\ [][NextFunding]_vars

\* calculateMonkeySpawn on its own: the amounts a <= b it is given are every
\* multiple of 0.2 SOL up to MaxAllocateSteps steps, each of them less the
\* error margin, the amount cost(big) + cost(medium) + cost(small)/2, and an
\* amount whose sum with the error margin is not a JS number and rounds up.
AllocateSols ==
    {k * (2 * SMALL_MONKEY_PRICE) : k \in 0..MaxAllocateSteps}
    \cup {k * (2 * SMALL_MONKEY_PRICE) - ERROR_MARGIN : k \in 1..MaxAllocateSteps}
    \cup {BIG_MONKEY_PRICE + MEDIUM_MONKEY_PRICE + SMALL_MONKEY_PRICE \div 2}
    \cup {(2^SigBits \div SMALL_MONKEY_PRICE + 1) * SMALL_MONKEY_PRICE - 2 * ERROR_MARGIN}

InitAllocate ==
    /\ world = createWorld
    /\ clock = 0
    /\ nextId = 1
    /\ nextBananaId = 1
    /\ ticks = 0
    /\ txs = 0
    /\ dealtAt = [x \in {} |-> <<>>]
    /\ turnedAt = [x \in {} |-> 0]
    /\ topRequested = [x \in {} |-> "small"]
    /\ reservedAs = [x \in {} |-> {}]
    /\ wall = 1
    /\ resetTimestamp = 0
    /\ pollers = <<>>
    /\ calls = {}
    /\ last \in {[op |-> "amounts", a |-> p[1], b |-> p[2]] :
                    p \in {q \in AllocateSols \X AllocateSols : q[1] <= q[2]}}

\* engine.ts 169-190: calculateMonkeySpawn applied to both amounts.
CalculateMonkeySpawn ==
    /\ last.op = "amounts"
    /\ last' = [op |-> "allocate", a |-> last.a, b |-> last.b,
                 forA |-> calculateMonkeySpawn(last.a),
                 forB |-> calculateMonkeySpawn(last.b)]
    /\ UNCHANGED <<world, clock, nextId, nextBananaId, ticks, txs, dealtAt, turnedAt, topRequested, reservedAs>>
    /\ UNCHANGED pollerVars

NextAllocate == CalculateMonkeySpawn

SpecAllocate == InitAllocate /\ [][NextAllocate]_vars

\* getTeamIdFromSolAmount on its own: the amounts it is given are the number
\* literals of every multiple of 0.001 SOL up to MaxMilliSol steps and of
\* 0.00932, 0.08923 and 0.0982 SOL, in hundred-thousandths of a SOL.
TeamIdSols == {100 * k : k \in 0..MaxMilliSol} \cup {932, 8923, 9820}

InitTeamId ==
    /\ world = createWorld
    /\ clock = 0
    /\ nextId = 1
    /\ nextBananaId = 1
    /\ ticks = 0
    /\ txs = 0
    /\ dealtAt = [x \in {} |-> <<>>]
    /\ turnedAt = [x \in {} |-> 0]
    /\ topRequested = [x \in {} |-> "small"]
    /\ reservedAs = [x \in {} |-> {}]
    /\ wall = 1
    /\ resetTimestamp = 0
    /\ pollers = <<>>
    /\ calls = {}
    /\ last \in {[op |-> "amount", sol |-> n] : n \in TeamIdSols}

\* engine.ts 274-286, game-canvas.tsx 322
GetTeamIdFromSolAmount ==
    /\ last.op = "amount"
    /\ last' = [op |-> "teamId", sol |-> last.sol,
                 teamId |-> getTeamIdFromSolAmount(SolLiteral(last.sol))]
    /\ UNCHANGED <<world, clock, nextId, nextBananaId, ticks, txs, dealtAt, turnedAt, topRequested, reservedAs>>
    /\ UNCHANGED pollerVars

NextTeamId == GetTeamIdFromSolAmount

SpecTeamId == InitTeamId /\ [][NextTeamId]_vars

\* The poller handoff of the driver: the effect, its pollers' ticks, resets.
NextPoller ==
    \/ Mount
    \/ Advance
    \/ FetchReturns
    \/ TimerFires
    \/ HandleReset

SpecPoller == Init /\ [][NextPoller]_vars

\* One poller instance under any order of start(), stop(), settled fetches
\* and fired timeouts.
NextLoop ==
    \/ Create
    \/ Advance
    \/ Start
    \/ Stop
    \/ FetchSettles
    \/ TimeoutFires

SpecLoop == Init /\ [][NextLoop]_vars

(* ------------------------------ properties ---------------------------- *)
TeamStat(teamId) == world.teamStats[TeamIndex(world.teamStats, teamId)]
LastStep == last.op = "step"
HealOf(maxHp) == (maxHp * BANANA_HEAL_PERCENT) \div 100

\* C1: after every engine operation each team's `alive` equals the number of
\* agents in the world with that teamId, agents promoted in the tick included.
C1_AliveMatchesAgents ==
    \A t \in 1..Len(world.teamStats) :
        world.teamStats[t].alive = CountTeam(world.monkeys, world.teamStats[t].teamId)

\* A tick in which an agent died and a reserve was promoted in its place.
C1_Witness ==
    /\ LastStep
    /\ last.deadIds # {}
    /\ last.promoted > 0
    /\ \E t \in 1..Len(world.teamStats) : world.teamStats[t].alive > 0

\* C2: the world never holds more than maxMonkeys agents.
C2_PopulationCapped == Len(world.monkeys) <= MaxMonkeys

\* A full world with agents left waiting in reserve.
C2_Witness ==
    /\ Len(world.monkeys) = MaxMonkeys
    /\ TotalReserves(world.teamStats) > 0

\* C3: for every team, spawned = alive + dead + reserves.
C3_LedgerBalanced ==
    \A t \in 1..Len(world.teamStats) :
        world.teamStats[t].spawned
            = world.teamStats[t].alive + world.teamStats[t].dead + world.teamStats[t].reserves

\* A team with an agent alive, one dead and one in reserve at once.
C3_Witness ==
    \E t \in 1..Len(world.teamStats) :
        /\ world.teamStats[t].alive > 0
        /\ world.teamStats[t].dead > 0
        /\ world.teamStats[t].reserves > 0

\* C4: every agent in the world has 0 < hp <= maxHp, and an agent whose hp the
\* damage pass brought to 0 (never below) is not in the world the tick returns.
C4_HpWithinBounds ==
    /\ \A i \in 1..Len(world.monkeys) :
          0 < world.monkeys[i].hp /\ world.monkeys[i].hp <= world.monkeys[i].maxHp
    /\ LastStep =>
          /\ \A k \in 1..Len(last.hits) : last.hits[k].to >= 0
          /\ \A k \in 1..Len(last.hits) :
                last.hits[k].to = 0 => last.hits[k].victim \notin Ids(world.monkeys)
          /\ last.deadIds \cap Ids(world.monkeys) = {}

\* A tick that killed an agent by a hit larger than its hp and in which a
\* survivor's banana would have healed it past maxHp.
C4_Witness ==
    /\ LastStep
    /\ \E k \in 1..Len(last.hits) :
          last.hits[k].to = 0 /\ last.hits[k].from > 0
    /\ \E i \in 1..Len(world.monkeys) :
          /\ last.took[i] # NoId
          /\ last.hpBefore[i] + HealOf(world.monkeys[i].maxHp) > world.monkeys[i].maxHp
          /\ world.monkeys[i].hp = world.monkeys[i].maxHp

\* C5: spawnMonkeys(count > 0) with a = max(0, maxMonkeys - live agents) appends
\* exactly min(count, a) agents of the requested team and tier at full hp and
\* adds count - min(count, a) to the team's reserves.
C5_SpawnSplitsIntoLiveAndReserve ==
    last.op = "spawn" =>
        LET a == Max(0, MaxMonkeys - last.lenBefore)
            n == Min(last.count, a)
        IN /\ Len(world.monkeys) = last.lenBefore + n
           /\ \A k \in (last.lenBefore + 1)..Len(world.monkeys) :
                 /\ world.monkeys[k].teamId = last.teamId
                 /\ world.monkeys[k].monkeyType = last.monkeyType
                 /\ world.monkeys[k].maxHp = getMonkeyStats(last.monkeyType).maxHp
                 /\ world.monkeys[k].hp = world.monkeys[k].maxHp
           /\ TeamIndex(world.teamStats, last.teamId) # 0
           /\ TeamStat(last.teamId).reserves = last.reservesBefore + last.count - n

\* A request larger than the free room of a partly filled world: part of it
\* goes live and the rest to a reserve that was not empty before.
C5_Witness ==
    /\ last.op = "spawn"
    /\ last.lenBefore > 0
    /\ last.lenBefore < MaxMonkeys
    /\ last.count > MaxMonkeys - last.lenBefore
    /\ TeamStat(last.teamId).reserves > 0

C7_RescuePreferred ==
    (LastStep /\ last.fightingEnabled) =>
        \A i \in 1..Len(last.rescue) :
            last.rescue[i].ally # NoId => last.rescue[i].picked = last.rescue[i].ally

WorldAgent(id) == world.monkeys[FindById(world.monkeys, id)]
InputIds == {last.input[i].id : i \in 1..Len(last.input)}

\* Two agents of different teams, alone in the world passed in, within
\* ATTACK_RANGE of each other, combat enabled, both cooldowns over.
Duel ==
    /\ LastStep
    /\ last.fightingEnabled
    /\ Len(last.input) = 2
    /\ last.input[1].teamId # last.input[2].teamId
    /\ Dist(last.input[1].position, last.input[2].position) <= ATTACK_RANGE * PX
    /\ last.input[1].ready
    /\ last.input[2].ready

\* Each of the two was hit once, lost exactly the other's tier damage (hp
\* floored at 0), and is flagged isUnderAttack if it is still in the world.
DuelOutcome ==
    /\ Len(last.hits) = 2
    /\ \A i \in {1, 2} :
          LET me == last.input[i]
              other == last.input[3 - i]
              expected == Max(0, me.hp - getMonkeyStats(other.monkeyType).damage)
          IN /\ Cardinality({k \in 1..Len(last.hits) :
                                last.hits[k].victim = me.id
                                /\ last.hits[k].attacker = other.id}) = 1
             /\ IF me.id \in Ids(world.monkeys)
                THEN /\ WorldAgent(me.id).hp = expected
                     /\ WorldAgent(me.id).isUnderAttack
                ELSE expected = 0

\* Neither of the tick's input agents collected a banana in the tick.
NoBananaCollected ==
    \A i \in 1..Len(world.monkeys) :
        world.monkeys[i].id \in InputIds => last.took[i] = NoId

\* C8 as stated: after a duel tick each agent's hp is its hp before minus the
\* other's tier damage, floored at 0, and each survivor is flagged.
C8_DuelExchange == Duel => DuelOutcome

\* C8: the same, for a tick in which neither agent collects a banana and both
\* start inside the arena inset by half their size.
C8_DuelExchangeWithoutBanana ==
    (/\ Duel
     /\ last.input[1].inset
     /\ last.input[2].inset
     /\ NoBananaCollected) => DuelOutcome

\* A duel of different tiers without a banana, which one of the two survives.
C8_Witness ==
    /\ Duel
    /\ NoBananaCollected
    /\ last.input[1].monkeyType # last.input[2].monkeyType
    /\ InputIds \cap Ids(world.monkeys) # {}

\* C9: the ticks in which one attacker's hit is applied are at least
\* ATTACK_COOLDOWN_MS apart, and within a tick an attacker hits once.
C9_CooldownBetweenHits ==
    /\ \A id \in DOMAIN dealtAt :
          \A k \in 1..(Len(dealtAt[id]) - 1) :
              dealtAt[id][k + 1] - dealtAt[id][k] >= ATTACK_COOLDOWN_MS
    /\ LastStep =>
          \A j, k \in 1..Len(last.hits) :
              j # k => last.hits[j].attacker # last.hits[k].attacker

\* An agent that has hit in two ticks.
C9_Witness == \E id \in DOMAIN dealtAt : Len(dealtAt[id]) >= 2

BananaIds(bananas) == {bananas[k].id : k \in 1..Len(bananas)}
TookBefore(i) == {last.took[k] : k \in 1..(i - 1)} \ {NoId}

\* The bananas of the tick within pickup radius of the i-th agent.
Near(i) ==
    {k \in 1..Len(last.bananasBefore) :
        InCollectionRange(world.monkeys[i], last.bananasBefore[k])}

\* A full-hp agent collects nothing, and a banana nobody collected stays.
FullHpLeavesBananas ==
    /\ \A i \in 1..Len(world.monkeys) :
          last.hpBefore[i] = world.monkeys[i].maxHp =>
              last.took[i] = NoId /\ world.monkeys[i].hp = last.hpBefore[i]
    /\ \A k \in 1..Len(last.bananasBefore) :
          (\A i \in 1..Len(last.took) : last.took[i] # last.bananasBefore[k].id)
              => last.bananasBefore[k].id \in BananaIds(world.bananas)

\* The i-th agent collected a banana: healed by floor(maxHp * healAmount) up
\* to maxHp, and the banana is gone.
CollectedOne(i) ==
    /\ last.took[i] # NoId
    /\ world.monkeys[i].hp
          = Min(world.monkeys[i].maxHp,
                last.hpBefore[i] + HealOf(world.monkeys[i].maxHp))
    /\ last.took[i] \notin BananaIds(world.bananas)

\* C10 as stated: a full-hp agent never collects; an injured agent within
\* pickup radius of a banana collects it.
C10_InjuredInRadiusCollects ==
    LastStep =>
        /\ FullHpLeavesBananas
        /\ \A i \in 1..Len(world.monkeys) :
              (last.hpBefore[i] < world.monkeys[i].maxHp /\ Near(i) # {}) =>
                  /\ CollectedOne(i)
                  /\ last.took[i] \in {last.bananasBefore[k].id : k \in Near(i)}

\* C10: a full-hp agent never collects; agents collect in world order, and an
\* injured agent collects the first banana within its pickup radius that no
\* earlier agent collected in the tick, nothing if there is none left.
C10_InjuredCollectsFirstLeft ==
    LastStep =>
        /\ FullHpLeavesBananas
        /\ \A i \in 1..Len(world.monkeys) :
              last.hpBefore[i] < world.monkeys[i].maxHp =>
                  LET left == {k \in Near(i) :
                                  last.bananasBefore[k].id \notin TookBefore(i)}
                  IN IF left = {}
                     THEN last.took[i] = NoId /\ world.monkeys[i].hp = last.hpBefore[i]
                     ELSE /\ CollectedOne(i)
                          /\ last.took[i]
                               = last.bananasBefore[CHOOSE k \in left :
                                                       \A j \in left : k <= j].id

\* Two injured agents within pickup radius of the same banana: the first in
\* world order collected it, the second collected nothing.
C10_Witness ==
    /\ LastStep
    /\ \E i, j \in 1..Len(world.monkeys) :
          /\ i < j
          /\ last.took[i] # NoId
          /\ last.hpBefore[j] < world.monkeys[j].maxHp
          /\ Near(j) # {}
          /\ last.took[j] = NoId

(* ------------------------------- funding ------------------------------ *)
LastTx == last.op = "tx"
PoolOf(w, teamId) == w.teamPools[TeamIndex(w.teamPools, teamId)]
StatsOf(w, teamId) == w.teamStats[TeamIndex(w.teamStats, teamId)]
HasPool(w, teamId) == TeamIndex(w.teamPools, teamId) # 0

\* The wallet's contribution and the pool total the event found.
ContributionBefore ==
    IF HasPool(last.before, last.transaction.teamId)
    THEN WalletGet(PoolOf(last.before, last.transaction.teamId).fundingWallets,
                   last.transaction.wallet)
    ELSE 0
TotalBefore ==
    IF HasPool(last.before, last.transaction.teamId)
    THEN PoolOf(last.before, last.transaction.teamId).totalSol
    ELSE 0

\* C11: a funding event applied a second time, right after its first
\* application, leaves the pools and the team records as the first left them.
C11_RedeliveryChangesNothing ==
    (LastTx /\ last.repeated) =>
        /\ world.teamPools = last.before.teamPools
        /\ world.teamStats = last.before.teamStats

\* What a sell does to the wallets of its team's pool: the seller's
\* contribution c becomes c - min(s, c), its entry is there exactly while
\* something is left, and the other wallets keep theirs.
SellSettlesWallets ==
        LET pool == PoolOf(world, last.transaction.teamId)
            taken == Min(last.transaction.sol, ContributionBefore)
        IN /\ WalletGet(pool.fundingWallets, last.transaction.wallet)
                 = FSub(ContributionBefore, taken)
           /\ last.transaction.wallet \in DOMAIN pool.fundingWallets
                 <=> FSub(ContributionBefore, taken) > 0
           /\ \A x \in Wallets \ {last.transaction.wallet} :
                 WalletGet(pool.fundingWallets, x)
                    = IF HasPool(last.before, last.transaction.teamId)
                      THEN WalletGet(PoolOf(last.before,
                                            last.transaction.teamId).fundingWallets, x)
                      ELSE 0

TakenBySell == Min(last.transaction.sol, ContributionBefore)

RECURSIVE SumWallets(_, _)
SumWallets(map, left) ==
    IF left = {} THEN 0
    ELSE LET x == CHOOSE y \in left : TRUE
         IN map[x] + SumWallets(map, left \ {x})
Contributions(map) == Fl(SumWallets(map, DOMAIN map))

\* C13: every pool's totalSol is the sum of its wallets' contributions, and
\* the team record carries the pool's totalSol and wallet map.
C13_PoolTotalIsSumOfContributions ==
    \A p \in 1..Len(world.teamPools) :
        LET pool == world.teamPools[p]
        IN /\ pool.totalSol = Contributions(pool.fundingWallets)
           /\ TeamIndex(world.teamStats, pool.teamId) # 0
           /\ StatsOf(world, pool.teamId).totalSol = pool.totalSol
           /\ StatsOf(world, pool.teamId).fundingWallets = pool.fundingWallets

\* The counters and the dominant tier of a team record.
Counters(stats) ==
    [spawned |-> stats.spawned, alive |-> stats.alive, dead |-> stats.dead,
     kills |-> stats.kills, reserves |-> stats.reserves, monkeyType |-> stats.monkeyType]

\* C14: processTransaction leaves the agents, the bananas and every team's
\* spawned, alive, dead, kills, reserves and dominant tier as they were; a
\* team record it creates starts with no agents.
C14_FundingLeavesAgentsAlone ==
    LastTx =>
        /\ world.monkeys = last.before.monkeys
        /\ world.bananas = last.before.bananas
        /\ \A t \in 1..Len(world.teamStats) :
              IF t <= Len(last.before.teamStats)
              THEN /\ world.teamStats[t].teamId = last.before.teamStats[t].teamId
                   /\ Counters(world.teamStats[t]) = Counters(last.before.teamStats[t])
              ELSE Counters(world.teamStats[t])
                      = Counters(NewTeamStats(last.transaction.teamId, 0, 0, 0, "small"))
        /\ Len(world.teamStats) >= Len(last.before.teamStats)

\* A sell that took a wallet's contribution from the pool of a team with
\* agents alive and in reserve.
C14_Witness ==
    /\ LastTx
    /\ last.transaction.isSell
    /\ ContributionBefore > 0
    /\ StatsOf(world, last.transaction.teamId).alive > 0
    /\ StatsOf(world, last.transaction.teamId).reserves > 0

(* ----------------------------- poller handoff ------------------------- *)
\* C15: after a reset at time T no funding event with a timestamp earlier
\* than T is applied to the world: every onTransaction call that reached
\* processTransaction carried a timestamp not earlier than the
\* resetTimestamp in force when it was made, whichever poller made it.
C15_NoEventBeforeWatermarkApplied ==
    \A c \in calls : c.applied => c.ts >= c.resetAt

\* C16: once stop() has returned on a poller, that poller makes no further
\* onTransaction call, a fetch in flight at the time of stop() included.
C16_NoCallbackAfterStop ==
    \A c \in calls : ~c.afterStop

\* C17: within one poller each transaction hash is passed to onTransaction at
\* most once, whatever item lists the polls return, and a hash whose handling
\* threw is never passed at all once it is marked processed.
C17_EachHashHandedOverOnce ==
    /\ \A c \in calls : c.nth = 1
    /\ \A i \in 1..Len(pollers) : \A c \in calls :
          c.poller = i => c.txHash \in pollers[i].processedTransactions

(* ------------------------------- purity ------------------------------- *)
\* C18: stepWorld leaves the world it was passed unchanged: the team records
\* reachable from the input world read, after the call, as they read before
\* it, their alive, dead, kills and reserves counters in particular.
C18_StepLeavesInputWorld ==
    LastStep => last.teamStatsAfter = last.teamStatsBefore

(* ---------------------------- allocation ------------------------------ *)
Allocated == last.op = "allocate"

\* sum(count * cost(tier)) as the program's numbers compute it.
RECURSIVE TotalCost(_)
TotalCost(results) ==
    IF results = <<>> THEN 0
    ELSE FAdd(Fl(Head(results).count * MONKEY_COSTS(Head(results).type)),
              TotalCost(Tail(results)))

RECURSIVE TotalAgents(_)
TotalAgents(results) ==
    IF results = <<>> THEN 0 ELSE Head(results).count + TotalAgents(Tail(results))

WellFormed(results, solAmount) ==
    /\ \A k \in 1..Len(results) :
          /\ results[k].type \in Tiers
          /\ results[k].count \in Nat \ {0}
    /\ \A k \in 1..(Len(results) - 1) :
          MONKEY_COSTS(results[k].type) > MONKEY_COSTS(results[k + 1].type)
    /\ TotalCost(results) <= FAdd(solAmount, ERROR_MARGIN)

\* C19: for every non-negative amount calculateMonkeySpawn returns entries
\* ordered largest tier first, each with a positive integer count and no tier
\* with count zero, whose total cost is at most amount + 0.0001; for
\* cost(big) + cost(medium) + cost(small)/2 it returns one big, one medium and
\* no small.
C19_AllocationWithinAmount ==
    Allocated =>
        /\ WellFormed(last.forA, last.a)
        /\ WellFormed(last.forB, last.b)
        /\ last.a = BIG_MONKEY_PRICE + MEDIUM_MONKEY_PRICE + SMALL_MONKEY_PRICE \div 2
              => last.forA = <<[type |-> "big", count |-> 1],
                               [type |-> "medium", count |-> 1]>>

\* The example amount allocated, next to an amount whose sum with the error
\* margin rounded up to the cost of the agents allocated for it.
C19_Witness ==
    /\ Allocated
    /\ last.a = BIG_MONKEY_PRICE + MEDIUM_MONKEY_PRICE + SMALL_MONKEY_PRICE \div 2
    /\ Len(last.forA) = 2
    /\ last.b > 2^SigBits
    /\ FAdd(last.b, ERROR_MARGIN) > last.b + ERROR_MARGIN
    /\ TotalCost(last.forB) = FAdd(last.b, ERROR_MARGIN)

\* C20: calculateMonkeySpawn is monotonic in agent count: for amounts a <= b
\* the agents allocated for a are at most the agents allocated for b.
C20_AgentCountMonotonic ==
    Allocated => TotalAgents(last.forA) <= TotalAgents(last.forB)

(* ------------------------------ team digit ---------------------------- *)
\* C21: for every non-negative amount getTeamIdFromSolAmount returns the
\* hundredths digit of the amount rounded up to the next multiple of 0.01
\* (0.00932 gives "1", 0.08923 gives "9", 0.0982 gives "0"); an exact multiple
\* of 0.01 maps to its own hundredths digit (0.07 gives "7").
C21_TeamIsHundredthsDigitRoundedUp ==
    last.op = "teamId" => last.teamId = Digits[(CeilDiv(last.sol, 1000) % 10) + 1]

(* ------------------------------ tier stats ---------------------------- *)
TierOrder == <<"small", "medium", "big">>

\* C22: getMonkeyStats is total over the three tiers and, going small,
\* medium, big, maxHp (100, 800, 5000) and damage (12, 24, 240) strictly
\* increase while speed (40, 20, 13.2 px/s) does not increase; every agent in
\* the world carries the maxHp of its tier.
C22_StatsOrderedByTier ==
    /\ \A t \in Tiers :
          DOMAIN getMonkeyStats(t) =
              {"size", "collisionRadius", "speed", "maxHp", "damage", "healthBars"}
    /\ [k \in 1..3 |-> getMonkeyStats(TierOrder[k]).maxHp] = <<100, 800, 5000>>
    /\ [k \in 1..3 |-> getMonkeyStats(TierOrder[k]).damage] = <<12, 24, 240>>
    /\ [k \in 1..3 |-> getMonkeyStats(TierOrder[k]).speed * 10]
          = <<400 * PX, 200 * PX, 132 * PX>>
    /\ \A k \in 1..2 :
          /\ getMonkeyStats(TierOrder[k]).maxHp < getMonkeyStats(TierOrder[k + 1]).maxHp
          /\ getMonkeyStats(TierOrder[k]).damage < getMonkeyStats(TierOrder[k + 1]).damage
          /\ getMonkeyStats(TierOrder[k]).speed >= getMonkeyStats(TierOrder[k + 1]).speed
    /\ \A i \in 1..Len(world.monkeys) :
          world.monkeys[i].maxHp = getMonkeyStats(world.monkeys[i].monkeyType).maxHp

\* A medium and a big agent in the world, each made with its tier's stats.
C22_Witness ==
    \E i, j \in 1..Len(world.monkeys) :
        /\ world.monkeys[i].monkeyType = "medium"
        /\ world.monkeys[j].monkeyType = "big"
        /\ world.monkeys[i].maxHp < world.monkeys[j].maxHp

(* --------------------------- combat disabled -------------------------- *)
\* C23: a stepWorld call with fightingEnabled = false lowers no agent's hp,
\* removes no agent from the world, leaves every team's dead and kills
\* counters as they were and sets no agent's isFighting or isUnderAttack flag.
C23_DisabledCombatHarmsNobody ==
    (LastStep /\ ~last.fightingEnabled) =>
        /\ \A i \in 1..Len(last.input) :
              /\ last.input[i].id \in Ids(world.monkeys)
              /\ WorldAgent(last.input[i].id).hp >= last.input[i].hp
        /\ \A i \in 1..Len(world.monkeys) :
              ~world.monkeys[i].isFighting /\ ~world.monkeys[i].isUnderAttack
        /\ Len(world.teamStats) = Len(last.teamStatsBefore)
        /\ \A t \in 1..Len(world.teamStats) :
              /\ world.teamStats[t].dead = last.teamStatsBefore[t].dead
              /\ world.teamStats[t].kills = last.teamStatsBefore[t].kills

\* A tick with combat disabled on two agents of different teams within
\* ATTACK_RANGE of each other, one of them hit in the tick before.
C23_Witness ==
    /\ LastStep
    /\ ~last.fightingEnabled
    /\ \E i, j \in 1..Len(last.input) :
          /\ last.input[i].teamId # last.input[j].teamId
          /\ Dist(last.input[i].position, last.input[j].position) <= ATTACK_RANGE * PX
          /\ last.input[i].isUnderAttack
          /\ last.input[i].isFighting

(* ---------------------------- attack intents -------------------------- *)
\* C24: in the world every stepWorld call returns, with combat enabled or
\* disabled, every agent's targetId is undefined: the intent a tick records is
\* cleared in that tick's damage pass, whether or not it connected.
C24_NoIntentCarriedOver ==
    \A i \in 1..Len(world.monkeys) : world.monkeys[i].targetId = NoId

\* A tick whose damage pass applied the hit of an agent that is still in the
\* world.
C24_Witness ==
    /\ LastStep
    /\ \E k \in 1..Len(last.hits) : last.hits[k].attacker \in Ids(world.monkeys)

\* C25: in the damage pass an attacker whose hp an earlier attacker of the
\* same pass reduced to 0 inflicts no damage on its target, and a target
\* already at hp 0 receives no further hit: every hit applied came from an
\* attacker with hp > 0 and landed on a victim with hp > 0.
C25_DeadAttackersDoNotHit ==
    LastStep =>
        \A k \in 1..Len(last.hits) :
            last.hits[k].attackerHp > 0 /\ last.hits[k].from > 0

(* ----------------------------- friendly fire -------------------------- *)
InputTeamOf(id) ==
    last.input[CHOOSE i \in 1..Len(last.input) : last.input[i].id = id].teamId

\* C26: no agent's hp is decreased by an attacker with the same teamId (every
\* hit comes from another team, and hp drops through hits only), and a killer
\* team recorded for a dead agent differs from the dead agent's own team.
C26_NoFriendlyFire ==
    LastStep =>
        /\ \A k \in 1..Len(last.hits) :
              InputTeamOf(last.hits[k].attacker) # InputTeamOf(last.hits[k].victim)
        /\ \A i \in 1..Len(last.input) :
              (\/ last.input[i].id \notin Ids(world.monkeys)
               \/ WorldAgent(last.input[i].id).hp < last.input[i].hp)
                  => \E k \in 1..Len(last.hits) : last.hits[k].victim = last.input[i].id
        /\ \A k \in 1..Len(last.deadBy) :
              last.deadBy[k].killedBy # NoTeam
                  => last.deadBy[k].killedBy # last.deadBy[k].teamId

\* A tick in which an agent was killed and its killer's team recorded.
C26_Witness ==
    /\ LastStep
    /\ \E k \in 1..Len(last.deadBy) : last.deadBy[k].killedBy # NoTeam

\* The agent of the input world wanders in the observed tick: no enemy to
\* target, no banana to steer at, no wall within reach, not out of a fight.
Wanders(a) ==
    /\ \/ ~last.fightingEnabled
       \/ \A k \in 1..Len(last.input) : last.input[k].teamId = a.teamId
    /\ a.hp = getMonkeyStats(a.monkeyType).maxHp
    /\ ~a.isFighting
    /\ ~HitBoundary(a, 1, MaxDtMs) /\ ~HitBoundary(a, -1, MaxDtMs)

\* C27: an agent wandering in a tick, whose previous heading change is known,
\* draws a new heading in that tick exactly when the tick's now is at least
\* WANDER_INTERVAL_MS after the previous heading change; otherwise it keeps
\* its heading.
C27_HeadingRedrawnAfterInterval ==
    last.op = "step" =>
        \A k \in 1..Len(last.input) :
            LET a == last.input[k] IN
            (Wanders(a) /\ a.id \in DOMAIN last.turnedBefore /\ a.id \in DOMAIN turnedAt) =>
                /\ (turnedAt[a.id] = last.now)
                       <=> (last.now >= last.turnedBefore[a.id] + WANDER_INTERVAL_MS)
                /\ turnedAt[a.id] # last.now =>
                       \E i \in 1..Len(world.monkeys) :
                          world.monkeys[i].id = a.id /\ world.monkeys[i].velocity = a.velocity

\* The agent of the returned world with that id.
Returned(id) == world.monkeys[CHOOSE i \in 1..Len(world.monkeys) : world.monkeys[i].id = id]

\* The agents of other teams in the input world that are nearest to a.
NearestEnemies(a) ==
    LET enemies == {last.input[k] : k \in {j \in 1..Len(last.input) :
                                              last.input[j].teamId # a.teamId}}
    IN {e \in enemies : \A f \in enemies :
           Dist(e.position, a.position) <= Dist(f.position, a.position)}

\* The bananas of the input world that are nearest to a.
NearestBananas(a) ==
    LET bananas == {last.bananasBefore[k] : k \in 1..Len(last.bananasBefore)}
    IN {b \in bananas : \A c \in bananas :
           Dist(b.position, a.position) <= Dist(c.position, a.position)}

\* The tick's move of a at heading v is clamped at a wall.
AtWall(a, v) == HitBoundary(a, v, MaxDtMs)

\* The priority of intents over the agents that survive the observed tick:
\* the nearest enemy first (standing and fighting in range, heading at it out
\* of range), else the nearest banana when injured; with excuseWalls, a
\* heading whose move is clamped at a wall is left open.
IntentPriority(excuseWalls) ==
    last.op = "step" =>
        \A k \in 1..Len(last.input) :
            LET a == last.input[k]
                injured == a.hp < getMonkeyStats(a.monkeyType).maxHp
            IN a.id \in Ids(world.monkeys) =>
                IF last.fightingEnabled /\ NearestEnemies(a) # {}
                THEN \E e \in NearestEnemies(a) :
                        LET inRange == Dist(e.position, a.position) <= ATTACK_RANGE * PX
                            heading == Sign(e.position - a.position)
                        IN /\ Returned(a.id).isFighting <=> inRange
                           /\ inRange => Returned(a.id).velocity = 0
                           /\ ~inRange /\ ~(excuseWalls /\ AtWall(a, heading)) =>
                                  Returned(a.id).velocity = heading
                ELSE /\ ~Returned(a.id).isFighting
                     /\ injured /\ NearestBananas(a) # {} =>
                           \E b \in NearestBananas(a) :
                              LET heading == Sign(b.position - a.position)
                              IN ~(excuseWalls /\ AtWall(a, heading)) =>
                                    Returned(a.id).velocity = heading

\* C28: with combat enabled and an agent of another team in the world, an
\* agent stands and fights (velocity 0, isFighting) iff its nearest enemy is
\* within ATTACK_RANGE and otherwise heads straight at it, whatever bananas
\* there are; with no enemy to target, an injured agent heads at its nearest
\* banana.
C28_IntentFollowsPriority == IntentPriority(FALSE)

\* C28 amended: the same, except that a heading whose move is clamped at a
\* wall is replaced by a random one.
C28_IntentFollowsPriorityOffWalls == IntentPriority(TRUE)

\* An injured agent out of range of its enemy headed at it, away from the
\* banana at its other side; an injured agent without enemy headed at a banana.
C28_Witness ==
    /\ last.op = "step"
    /\ \E k \in 1..Len(last.input) :
          LET a == last.input[k] IN
          /\ a.id \in Ids(world.monkeys)
          /\ a.hp < getMonkeyStats(a.monkeyType).maxHp
          /\ NearestBananas(a) # {}
          /\ ~(last.fightingEnabled /\ NearestEnemies(a) # {})
          /\ \E b \in NearestBananas(a) :
                /\ ~AtWall(a, Sign(b.position - a.position))
                /\ Returned(a.id).velocity = Sign(b.position - a.position)
                /\ Returned(a.id).velocity # a.velocity

\* C29: a team's monkeyType is the costliest tier requested for it so far
\* (a tier that only grows in cost), and "small" for a team known only from
\* its funding.
C29_DominantTierIsTopRequested ==
    \A t \in 1..Len(world.teamStats) :
        LET stats == world.teamStats[t]
        IN IF stats.teamId \in DOMAIN topRequested
           THEN stats.monkeyType = topRequested[stats.teamId]
           ELSE stats.monkeyType = "small"

\* A request for a cheaper tier came after the team's costlier one and left
\* the team's tier alone.
C29_Witness ==
    /\ last.op = "spawn"
    /\ last.teamId \in DOMAIN topRequested
    /\ MONKEY_COSTS(last.monkeyType) < MONKEY_COSTS(topRequested[last.teamId])
    /\ \E t \in 1..Len(world.teamStats) :
          /\ world.teamStats[t].teamId = last.teamId
          /\ world.teamStats[t].monkeyType = topRequested[last.teamId]

\* The agents the observed tick promoted: spawnFromReserves appends them to
\* the survivors.
PromotedNow == {world.monkeys[i] : i \in (last.survivors + 1)..(last.survivors + last.promoted)}

\* C30: every agent a tick promotes from a team's reserves has the team's
\* monkeyType and hp = maxHp = the maxHp of that tier.
C30_PromotedAtDominantTier ==
    last.op = "step" =>
        \A m \in PromotedNow :
            LET t == TeamIndex(world.teamStats, m.teamId)
            IN /\ t # 0
               /\ m.monkeyType = world.teamStats[t].monkeyType
               /\ m.hp = getMonkeyStats(m.monkeyType).maxHp
               /\ m.maxHp = getMonkeyStats(m.monkeyType).maxHp

\* A Big agent was promoted for a team all of whose reserves were requested
\* as Small.
C30_Witness ==
    /\ last.op = "step"
    /\ \E m \in PromotedNow :
          /\ m.monkeyType = "big"
          /\ m.hp = BASE_HP * 50
          /\ m.teamId \in DOMAIN reservedAs
          /\ reservedAs[m.teamId] = {"small"}

\* The reserves counter of the team in a ledger, 0 for a team without record.
ReservesOf(teamStats, teamId) ==
    IF TeamIndex(teamStats, teamId) = 0 THEN 0
    ELSE teamStats[TeamIndex(teamStats, teamId)].reserves

\* A step lowers a reserves counter only if it is a stepWorld call in which
\* an agent died.
ReservesDrainedByDeathsOnly ==
    \A teamId \in Teams :
        ReservesOf(world'.teamStats, teamId) < ReservesOf(world.teamStats, teamId) =>
            /\ ticks' = ticks + 1
            /\ last'.op = "step"
            /\ last'.deadIds # {}

\* C31: a team's reserves counter decreases only inside a stepWorld call in
\* which at least one agent died; every other call leaves every reserves
\* counter unchanged or larger.
C31_ReservesDrainOnlyOnDeath == [][ReservesDrainedByDeathsOnly]_vars

\* A tick with a death promoted a reserve, and a counter fell.
C31_Witness ==
    /\ last.op = "step"
    /\ last.deadIds # {}
    /\ last.promoted > 0
    /\ \E t \in 1..Len(last.teamStatsBefore) :
          ReservesOf(world.teamStats, last.teamStatsBefore[t].teamId)
              < last.teamStatsBefore[t].reserves

\* C32: in a behaviour in which spawn requests and ticks with deaths both
\* occur again and again, every team whose reserves counter is nonzero
\* eventually has a reserved agent promoted.
C32_NoTeamStarved ==
    ([]<>(last.op = "deaths") /\ []<>(last.op = "request")) =>
        \A teamId \in Teams :
            [](ReservesOfTeam(world.teamStats, teamId) > 0
                 => <>(last.op = "deaths" /\ teamId \in last.promotedTeams))

\* The bananas the observed tick's collection removed.
TakenNow == Cardinality({i \in 1..Len(last.took) : last.took[i] # NoId})

\* C33: there are never more than MAX_BANANAS bananas, and a tick adds at
\* most one banana to those its collection left, and none when 5 were left.
C33_BananasCapped ==
    /\ Len(world.bananas) <= MAX_BANANAS
    /\ last.op = "step" =>
          LET remaining == Len(last.bananasBefore) - TakenNow
          IN /\ Len(world.bananas) <= remaining + 1
             /\ Len(world.bananas) >= remaining
             /\ Len(world.bananas) = remaining + 1 <=> remaining < MAX_BANANAS

\* A tick found MAX_BANANAS bananas, an agent collected one and the tick
\* topped them up again.
C33_Witness ==
    /\ last.op = "step"
    /\ Len(last.bananasBefore) = MAX_BANANAS
    /\ TakenNow = 1
    /\ Len(world.bananas) = MAX_BANANAS

\* In the observed tick no banana healed two agents, no agent gained more
\* than one banana's heal, and the bananas removed are the ones collected,
\* one per agent healed.
OneBananaOneAgent ==
    /\ \A i, j \in 1..Len(last.took) :
          (i # j /\ last.took[i] # NoId) => last.took[i] # last.took[j]
    /\ \A i \in 1..Len(world.monkeys) :
          IF last.took[i] = NoId
          THEN world.monkeys[i].hp = last.hpBefore[i]
          ELSE /\ world.monkeys[i].hp > last.hpBefore[i]
               /\ world.monkeys[i].hp <= last.hpBefore[i] + HealOf(world.monkeys[i].maxHp)
    /\ BananaIds(last.bananasBefore) \ BananaIds(world.bananas)
          = {last.took[i] : i \in 1..Len(last.took)} \ {NoId}
    /\ Cardinality(BananaIds(last.bananasBefore) \ BananaIds(world.bananas)) = TakenNow
    /\ Cardinality(BananaIds(last.bananasBefore)) = Len(last.bananasBefore)

\* Agents i < j, both injured and both within pickup radius of the k-th banana.
Contend(i, j, k) ==
    /\ i < j
    /\ last.hpBefore[i] < world.monkeys[i].maxHp
    /\ last.hpBefore[j] < world.monkeys[j].maxHp
    /\ k \in Near(i) \cap Near(j)

\* C34 as stated: one banana per agent and one agent per banana in a tick,
\* and of two injured agents within pickup radius of the same banana the
\* earlier one collects that banana.
C34_EarlierAgentGetsSharedBanana ==
    LastStep =>
        /\ OneBananaOneAgent
        /\ \A i, j \in 1..Len(world.monkeys) : \A k \in 1..Len(last.bananasBefore) :
              Contend(i, j, k) => last.took[i] = last.bananasBefore[k].id

\* C34 amended: one banana per agent and one agent per banana in a tick, and
\* of two injured agents within pickup radius of the same banana the earlier
\* one collects a banana: that one, unless an agent before it took it or a
\* banana earlier in the list was left within its radius.
C34_EarlierAgentServedFirst ==
    LastStep =>
        /\ OneBananaOneAgent
        /\ \A i, j \in 1..Len(world.monkeys) : \A k \in 1..Len(last.bananasBefore) :
              Contend(i, j, k) =>
                  \/ last.took[i] = last.bananasBefore[k].id
                  \/ last.bananasBefore[k].id \in TookBefore(i)
                  \/ \E h \in Near(i) : h < k /\ last.took[i] = last.bananasBefore[h].id

\* Two injured agents within pickup radius of the same two bananas: the
\* earlier agent collected the first banana and the later agent the second.
C34_Witness ==
    /\ LastStep
    /\ \E i, j \in 1..Len(world.monkeys) : \E h, k \in 1..Len(last.bananasBefore) :
          /\ h < k
          /\ Contend(i, j, k)
          /\ Contend(i, j, h)
          /\ last.took[i] = last.bananasBefore[h].id
          /\ last.took[j] = last.bananasBefore[k].id

\* C35: every agent of the input world that the returned world still holds
\* is inside the arena inset by half its size.
C35_AgentsStayInsideInset ==
    LastStep =>
        \A k \in 1..Len(last.input) :
            LET a == last.input[k]
                half == getMonkeyStats(a.monkeyType).size \div 2
            IN a.id \in Ids(world.monkeys) =>
                  /\ Returned(a.id).position >= half
                  /\ Returned(a.id).position <= Width - half

RECURSIVE TotalKills(_)
TotalKills(teamStats) ==
    IF teamStats = <<>> THEN 0 ELSE Head(teamStats).kills + TotalKills(Tail(teamStats))

RECURSIVE TotalDead(_)
TotalDead(teamStats) ==
    IF teamStats = <<>> THEN 0 ELSE Head(teamStats).dead + TotalDead(Tail(teamStats))

\* The hits of the observed tick that took the agent's hp from positive to 0.
FatalHits(id) ==
    {k \in 1..Len(last.hits) :
        last.hits[k].victim = id /\ last.hits[k].from > 0 /\ last.hits[k].to <= 0}

\* The dead agents of the observed tick whose kill is recorded for the team.
KilledBy(teamId) ==
    {k \in 1..Len(last.deadBy) : last.deadBy[k].killedBy = teamId}

C37_ReservesWaitOnlyWhenFull ==
    last.op \in {"spawn", "sweep", "step"} =>
        (TotalReserves(world.teamStats) > 0 => Len(world.monkeys) = MaxMonkeys)

\* A tick with a death that promoted into the freed room and left agents in
\* reserve behind a world that is full again.
C37_Witness ==
    /\ LastStep
    /\ last.deadIds # {}
    /\ last.survivors < MaxMonkeys
    /\ last.promoted = MaxMonkeys - last.survivors
    /\ TotalReserves(world.teamStats) > 0
    /\ Len(world.monkeys) = MaxMonkeys

\* spawned of the team's record, 0 without record.
SpawnedOfTeam(teamStats, teamId) ==
    IF TeamIndex(teamStats, teamId) = 0 THEN 0
    ELSE teamStats[TeamIndex(teamStats, teamId)].spawned

\* A step that is a pool sweep leaves the pools as they were and requests,
\* for every team with a positive pool, the allocation of the pool's totalSol.
SweepKeepsPools ==
    last'.op = "sweep" =>
        /\ world'.teamPools = world.teamPools
        /\ \A t \in 1..Len(world.teamPools) :
              LET pool == world.teamPools[t]
                  asked == IF pool.totalSol > 0
                           THEN RequestedCount(calculateMonkeySpawn(pool.totalSol))
                           ELSE 0
              IN SpawnedOfTeam(world'.teamStats, pool.teamId)
                    = SpawnedOfTeam(world.teamStats, pool.teamId) + asked

\* C38: spawnMonkeysFromPools leaves every pool's totalSol and wallet
\* contributions unchanged, and every sweep, one that follows another sweep
\* included, requests the full allocation of each positive pool.
C38_SweepDoesNotConsumeFunding == [][SweepKeepsPools]_vars

\* The second of two sweeps in a row, over a pool that pays for an agent.
C38_Witness ==
    /\ last.op = "sweep"
    /\ last.again
    /\ \E t \in 1..Len(world.teamPools) :
          /\ world.teamPools[t].totalSol > 0
          /\ RequestedCount(calculateMonkeySpawn(world.teamPools[t].totalSol)) > 0
          /\ SpawnedOfTeam(world.teamStats, world.teamPools[t].teamId)
                >= 2 * RequestedCount(calculateMonkeySpawn(world.teamPools[t].totalSol))

\* C39: a poller instance never has more than one timeout pending or fetch in
\* flight, however start(), stop() and the completions of fetches interleave.
C39_OneLoopPerPoller ==
    \A i \in 1..Len(pollers) :
        Cardinality(pollers[i].armed) + pollers[i].fetching <= 1

====
